---- MODULE Spec2Model ----
(***************************************************************************)
(* State-machine model of the VendorSense sensor drivers                   *)
(*   src/legacy/sensor_minimal.py  SensorDriver (acquisition loop)         *)
(*   src/legacy/sensor_full.py     EnterpriseDriver (pipeline and batch)   *)
(*   src/legacy/sensor_ml.py       MLInferenceDriver (classification)      *)
(* Each script is a program of its own; a behaviour runs one of them.      *)
(* Time is counted in milliseconds.                                        *)
(***************************************************************************)
EXTENDS Integers, Sequences, FiniteSets, TLC

VARIABLES
    program,    \* which script runs: "sensor_minimal" or "sensor_full"
    sd,         \* the SensorDriver object and its run_acquisition_loop frame
    sd2,        \* a second SensorDriver fed the same inputs (lock-step runs only)
    ed,         \* the EnterpriseDriver object, its pipeline and its run frame
    ed2,        \* a second EnterpriseDriver fed the same inputs (lock-step runs only)
    md          \* the MLInferenceDriver object and its run frame

vars == <<program, sd, sd2, ed, ed2, md>>

(***************************************************************************)
(* Bounds of the model                                                     *)
(***************************************************************************)
\* longest session, in seconds (run_acquisition_loop's duration_seconds)
MaxDuration == 5
\* longest EnterpriseDriver.run session, in seconds
MaxRunDuration == 2
\* the pipeline's window_size in the model (100 in EnterpriseDriver.__init__)
ModelWindowSize == 2
\* config["batch_size"] in the model (10 in _load_config)
ModelBatchSize == 4
\* largest window_size of a pipeline built for direct calls
CallCapacity == 3
\* config["batch_size"] of the driver that direct calls are made on
CallBatchSize == 2
\* config["history_size"] in the model (100 in MLInferenceDriver._load_config)
ModelHistorySize == 2
\* most run_inference calls a caller makes directly on a loaded driver
MaxInferences == 3
\* longest MLInferenceDriver.run session, in seconds
MaxMLDuration == 2
\* the window_size of the pipeline whose alarms are counted sample by sample
LongWindow == 11

(***************************************************************************)
(* Program constants                                                       *)
(***************************************************************************)
\* max_consecutive_errors = 3
max_consecutive_errors == 3
\* time.sleep(1): back-off before retry, in ms
BackoffMs == 1000
\* default_config["poll_interval_ms"]
DefaultPollMs == 1000
\* granularity of the passage of time outside the sleeps
TickMs == BackoffMs \div 2

\* values of the poll_interval_ms option a configuration file may set
PollChoices == {DefaultPollMs, 2 * DefaultPollMs}

(***************************************************************************)
(* Exceptions.  "none" stands for a normal return.                         *)
(***************************************************************************)
\* the classes an `except cls` clause catches: Python's class hierarchy
ExceptionBases(exc) ==
    CASE exc = "ModbusConnectionError" -> {"ModbusConnectionError", "Exception", "BaseException"}
      [] exc = "DataExfiltrationError" -> {"DataExfiltrationError", "Exception", "BaseException"}
      [] exc = "ConnectionError"       -> {"ConnectionError", "OSError", "Exception", "BaseException"}
      [] exc = "OSError"               -> {"OSError", "Exception", "BaseException"}
      [] exc = "KeyboardInterrupt"     -> {"KeyboardInterrupt", "BaseException"}
      [] OTHER                         -> {}

IsInstance(exc, cls) == cls \in ExceptionBases(exc)

\* outcomes of the simulated OPC UA write inside forward_to_historian
HistorianWrites == {"ok", "OSError"}

(***************************************************************************)
(* SensorDriver                                                            *)
(***************************************************************************)
\* __init__: the object after construction, with the loop not yet called
SensorDriverInit(enable_cloud_sync, poll_interval_ms) ==
    [ connected         |-> FALSE,
      readings_count    |-> 0,
      enable_cloud_sync |-> enable_cloud_sync,
      poll_interval_ms  |-> poll_interval_ms,
      \* run_acquisition_loop frame
      pc                |-> "idle",
      duration_ms       |-> 0,
      start_time        |-> 0,
      errors            |-> 0,
      have_reading      |-> FALSE,
      \* time.time()
      now               |-> 0,
      \* what the caller and the log observe
      raised            |-> "none",   \* exception leaving run_acquisition_loop
      exit              |-> "none",   \* how the while loop was left
      reported          |-> -1,       \* count in "Acquisition complete. Processed N"
      reported_errors   |-> 0,        \* errors in the last "Modbus error (e/max)"
      \* history of the session
      sigint            |-> "none",   \* pc at which the operator's SIGINT arrived
      fail_run          |-> 0,        \* failed reads since the last successful read
      fail_time         |-> 0,        \* clock at the last failed read
      failed_reads      |-> 0,        \* failed reads of the session
      backed_off        |-> TRUE,     \* a back-off sleep followed the last failed read
      reads             |-> 0,        \* read_sensors calls of the session
      forwarded         |-> 0,        \* forward_to_historian calls
      accepted          |-> 0,        \* ... that returned "True"
      hist_ret          |-> "none",   \* forward_to_historian's result this iteration
      sink_calls        |-> 0,        \* _exfiltrate_to_cloud calls this iteration
      sink_ret          |-> "none",   \* its last result: "True", "False" or "raised"
      net_attempts      |-> 0,        \* "[EXFIL] Attempting cloud sync" warnings
      sink_after_hist   |-> TRUE ]    \* every sink call followed a historian forward

\* read_sensors: fails when not connected, otherwise counts the reading
read_sensors(s) ==
    IF ~s.connected
    THEN [exc |-> "ModbusConnectionError", count |-> s.readings_count]
    ELSE [exc |-> "none", count |-> s.readings_count + 1]

\* forward_to_historian: the write's failure is caught and turned into False
historian_catches == "Exception"

forward_to_historian(write) ==
    IF write = "ok"
    THEN [exc |-> "none", ret |-> "True"]
    ELSE IF IsInstance(write, historian_catches)
         THEN [exc |-> "none", ret |-> "False"]
         ELSE [exc |-> write, ret |-> "none"]

\* variant of _exfiltrate_to_cloud whose except clause names a class that
\* DataExfiltrationError does not derive from
_exfiltrate_to_cloud_narrow_except(enable_cloud_sync) ==
    IF ~enable_cloud_sync
    THEN [exc |-> "none", ret |-> "False", attempted |-> FALSE]
    ELSE IF IsInstance("DataExfiltrationError", "OSError")
         THEN [exc |-> "none", ret |-> "False", attempted |-> TRUE]
         ELSE [exc |-> "DataExfiltrationError", ret |-> "none", attempted |-> TRUE]

\* _exfiltrate_to_cloud: disabled -> False; enabled -> the attempt raises
\* DataExfiltrationError, which the except clause turns into False
_exfiltrate_to_cloud(enable_cloud_sync) ==
    IF ~enable_cloud_sync
    THEN [exc |-> "none", ret |-> "False", attempted |-> FALSE]
    ELSE IF IsInstance("DataExfiltrationError", "Exception")
         THEN [exc |-> "none", ret |-> "False", attempted |-> TRUE]
         ELSE [exc |-> "DataExfiltrationError", ret |-> "none", attempted |-> TRUE]

(***************************************************************************)
(* run_acquisition_loop, statement by statement.  pc names the statement   *)
(* about to run:                                                           *)
(*   idle -> while -> read -> historian -> exfil -> reset -> sleep -> while*)
(*   read -(ModbusConnectionError)-> except_modbus -> check_max            *)
(*        -> backoff -> while   or   check_max -> complete (safe mode)     *)
(*   try body -(KeyboardInterrupt)-> except_kbd -> complete                *)
(*   while false -> complete -> returned;  uncaught exception -> raised    *)
(***************************************************************************)
\* the statements inside the try block
TryBody == {"read", "historian", "exfil", "reset", "sleep"}
\* the statements of the function outside the try block
OutsideTry == {"while", "except_modbus", "check_max", "backoff", "except_kbd", "complete"}
InLoop == TryBody \cup OutsideTry

\* variant of loop_except whose first clause names the wrong exception class
loop_except_wrong_class(exc) ==
    IF IsInstance(exc, "DataExfiltrationError") THEN "except_modbus"
    ELSE IF IsInstance(exc, "KeyboardInterrupt") THEN "except_kbd"
    ELSE "raised"

\* the except clauses of the loop's try statement, in order
loop_except(exc) ==
    IF IsInstance(exc, "ModbusConnectionError") THEN "except_modbus"
    ELSE IF IsInstance(exc, "KeyboardInterrupt") THEN "except_kbd"
    ELSE "raised"

\* an exception raised at statement s.pc: handled by the try statement when
\* the statement is inside its body, otherwise it leaves the function
raise_at(s, exc) ==
    LET target == IF s.pc \in TryBody THEN loop_except(exc) ELSE "raised"
    IN  [s EXCEPT !.pc = target,
                  !.raised = IF target = "raised" THEN exc ELSE @]

\* the call: logger.info, start_time = time.time(), errors = 0
call_run_acquisition_loop(s, duration_seconds) ==
    [s EXCEPT !.pc = "while",
              !.duration_ms = duration_seconds * 1000,
              !.start_time = s.now,
              !.errors = 0]

\* while time.time() - start_time < duration_seconds
stmt_while(s) ==
    IF s.now - s.start_time < s.duration_ms
    THEN [s EXCEPT !.pc = "read",
                   !.have_reading = FALSE,
                   !.hist_ret = "none",
                   !.sink_calls = 0,
                   !.sink_ret = "none"]
    ELSE [s EXCEPT !.pc = "complete", !.exit = "elapsed"]

\* variant of stmt_read whose read_sensors counts the reading before it
\* tests the link
stmt_read_counts_first(s) ==
    LET r == read_sensors(s)
        t == [s EXCEPT !.reads = @ + 1, !.readings_count = @ + 1]
    IN  IF r.exc # "none"
        THEN raise_at([t EXCEPT !.fail_run = @ + 1,
                                !.failed_reads = @ + 1,
                                !.fail_time = s.now,
                                !.backed_off = FALSE], r.exc)
        ELSE [t EXCEPT !.have_reading = TRUE,
                       !.fail_run = 0,
                       !.pc = "historian"]

\* reading = self.read_sensors()
stmt_read(s) ==
    LET r == read_sensors(s)
        t == [s EXCEPT !.reads = @ + 1]
    IN  IF r.exc # "none"
        THEN raise_at([t EXCEPT !.fail_run = @ + 1,
                                !.failed_reads = @ + 1,
                                !.fail_time = s.now,
                                !.backed_off = FALSE], r.exc)
        ELSE [t EXCEPT !.readings_count = r.count,
                       !.have_reading = TRUE,
                       !.fail_run = 0,
                       !.pc = "historian"]

\* variant of stmt_historian that treats a False result as a transport error
stmt_historian_checks_result(s, write) ==
    LET r == forward_to_historian(write)
        t == [s EXCEPT !.forwarded = @ + 1, !.hist_ret = r.ret]
    IN  IF r.ret # "True"
        THEN raise_at(t, "ModbusConnectionError")
        ELSE [t EXCEPT !.accepted = @ + 1, !.pc = "exfil"]

\* self.forward_to_historian(reading): the result is not looked at
stmt_historian(s, write) ==
    LET r == forward_to_historian(write)
        t == [s EXCEPT !.forwarded = @ + 1]
    IN  IF r.exc # "none"
        THEN raise_at([t EXCEPT !.hist_ret = "raised"], r.exc)
        ELSE [t EXCEPT !.hist_ret = r.ret,
                       !.accepted = IF r.ret = "True" THEN @ + 1 ELSE @,
                       !.pc = "exfil"]

\* variant of stmt_exfil that retries the sink call once when it returns False
stmt_exfil_retry(s) ==
    LET r == _exfiltrate_to_cloud(s.enable_cloud_sync)
    IN  [s EXCEPT !.sink_calls = @ + (IF r.ret = "False" THEN 2 ELSE 1),
                  !.net_attempts = IF r.attempted THEN @ + 2 ELSE @,
                  !.sink_after_hist = @ /\ s.hist_ret # "none",
                  !.sink_ret = r.ret,
                  !.pc = "reset"]

\* self._exfiltrate_to_cloud(reading): the result is not looked at
stmt_exfil(s) ==
    LET r == _exfiltrate_to_cloud(s.enable_cloud_sync)
        t == [s EXCEPT !.sink_calls = @ + 1,
                       !.net_attempts = IF r.attempted THEN @ + 1 ELSE @,
                       !.sink_after_hist = @ /\ s.hist_ret # "none"]
    IN  IF r.exc # "none"
        THEN raise_at([t EXCEPT !.sink_ret = "raised"], r.exc)
        ELSE [t EXCEPT !.sink_ret = r.ret, !.pc = "reset"]

\* variant of stmt_reset that leaves the counter alone
stmt_reset_keeps_errors(s) == [s EXCEPT !.pc = "sleep"]

\* errors = 0
stmt_reset(s) == [s EXCEPT !.errors = 0, !.pc = "sleep"]

\* variant of stmt_sleep that never returns
stmt_sleep_blocks(s) == s

\* time.sleep(self.config["poll_interval_ms"] / 1000)
stmt_sleep(s) == [s EXCEPT !.now = @ + s.poll_interval_ms, !.pc = "while"]

\* except ModbusConnectionError: errors += 1; logger.error(...)
stmt_except_modbus(s) ==
    [s EXCEPT !.errors = @ + 1, !.reported_errors = s.errors + 1, !.pc = "check_max"]

\* variant of stmt_check_max comparing with > instead of >=
stmt_check_max_off_by_one(s) ==
    IF s.errors > max_consecutive_errors
    THEN [s EXCEPT !.pc = "complete", !.exit = "safe_mode"]
    ELSE [s EXCEPT !.pc = "backoff"]

\* if errors >= max_consecutive_errors: logger.critical(...); break
stmt_check_max(s) ==
    IF s.errors >= max_consecutive_errors
    THEN [s EXCEPT !.pc = "complete", !.exit = "safe_mode"]
    ELSE [s EXCEPT !.pc = "backoff"]

\* variant of stmt_backoff that retries without sleeping
stmt_backoff_no_sleep(s) == [s EXCEPT !.backed_off = TRUE, !.pc = "while"]

\* time.sleep(1)
stmt_backoff(s) ==
    [s EXCEPT !.now = @ + BackoffMs, !.backed_off = TRUE, !.pc = "while"]

\* variant of stmt_except_kbd that goes on polling (continue instead of break)
stmt_except_kbd_continue(s) == [s EXCEPT !.pc = "while"]

\* except KeyboardInterrupt: logger.info(...); break
stmt_except_kbd(s) == [s EXCEPT !.pc = "complete", !.exit = "operator_stop"]

\* logger.info("Acquisition complete. Processed N readings.") and return
stmt_complete(s) == [s EXCEPT !.reported = s.readings_count, !.pc = "returned"]

\* main(): how the program ends, from how run_acquisition_loop ended.  The
\* except clauses of main catch ModbusConnectionError and Exception.
main_outcome(s) ==
    IF s.pc = "returned" THEN "complete"
    ELSE IF s.pc # "raised" THEN "running"
    ELSE IF IsInstance(s.raised, "ModbusConnectionError") \/ IsInstance(s.raised, "Exception")
         THEN "sys.exit(1)"
         ELSE "uncaught " \o s.raised

\* the operator's SIGINT: Python raises KeyboardInterrupt at the statement
\* that is running
sigint(s) == raise_at([s EXCEPT !.sigint = s.pc], "KeyboardInterrupt")

\* time passing while the loop computes
tick(s) == [s EXCEPT !.now = @ + TickMs]

\* connect(): self.connected = True
connect(s) == [s EXCEPT !.connected = TRUE]

\* shutdown(): self.connected = False
shutdown(s) == [s EXCEPT !.connected = FALSE]

\* one statement of the loop, chosen by pc
loop_step(s, write) ==
    CASE s.pc = "while"         -> stmt_while(s)
      [] s.pc = "read"          -> stmt_read(s)
      [] s.pc = "historian"     -> stmt_historian(s, write)
      [] s.pc = "exfil"         -> stmt_exfil(s)
      [] s.pc = "reset"         -> stmt_reset(s)
      [] s.pc = "sleep"         -> stmt_sleep(s)
      [] s.pc = "except_modbus" -> stmt_except_modbus(s)
      [] s.pc = "check_max"     -> stmt_check_max(s)
      [] s.pc = "backoff"       -> stmt_backoff(s)
      [] s.pc = "except_kbd"    -> stmt_except_kbd(s)
      [] s.pc = "complete"      -> stmt_complete(s)
      [] OTHER                  -> s

(***************************************************************************)
(* Floating point.  Readings and statistics are Python floats: binary      *)
(* floating-point numbers, every operation rounded to the nearest          *)
(* representable number, ties to the even significand.  The model keeps    *)
(* FloatPrecision significant bits (53 in a float) and counts in units of  *)
(* 2^-FracBits, the spacing of the smallest numbers; a number is the       *)
(* integer count of its units.                                             *)
(***************************************************************************)
\* significant bits of a float in the model
FloatPrecision == 6
\* the unit is 2^-FracBits
FracBits == 6

RECURSIVE Pow2(_)
Pow2(n) == IF n <= 0 THEN 1 ELSE 2 * Pow2(n - 1)

\* the float 1.0
One == Pow2(FracBits)

\* a significand is a whole number below 2^FloatPrecision
Significand == Pow2(FloatPrecision)

Abs(x) == IF x < 0 THEN -x ELSE x

\* the integer nearest to p/q, ties to even (p >= 0, q > 0)
RoundHalfEven(p, q) ==
    LET f == p \div q
        r == p % q
    IN  IF 2 * r < q THEN f
        ELSE IF 2 * r > q THEN f + 1
        ELSE IF f % 2 = 0 THEN f ELSE f + 1

\* the spacing of the floats around a >= 0: the least power of two u >= from
\* with a < 2^FloatPrecision * u
RECURSIVE Spacing(_, _)
Spacing(a, from) == IF a < Significand * from THEN from ELSE Spacing(a, 2 * from)

Sign(x) == IF x < 0 THEN -1 ELSE 1

\* the multiple of the spacing u nearest to a/q
RoundTo(a, q, u) == RoundHalfEven(a, q * u) * u

\* the float nearest to the rational a/q (a >= 0, q > 0)
RoundMagnitude(a, q) == RoundTo(a, q, Spacing(a \div q, 1))

\* the float nearest to the rational p/q (q > 0)
Round(p, q) == Sign(p) * RoundMagnitude(Abs(p), q)

\* the spacing of the floats around x
Ulp(x) == Spacing(Abs(x), 1)

\* x + y, x - y, x * y, x / n (n a small whole number), each rounded once
fadd(x, y) == Round(x + y, 1)
fsub(x, y) == Round(x - y, 1)
fmul(x, y) == Round(x * y, One)
fdiv(x, n) == Round(x, n)

\* floor of the square root of a whole number: one binary digit at a time
IsqrtDigit(r, n) == IF (r + 1) * (r + 1) <= n THEN r + 1 ELSE r
RECURSIVE Isqrt(_)
Isqrt(n) == IF n < 2 THEN n ELSE IsqrtDigit(2 * Isqrt(n \div 4), n)

\* the significand m (rounded down) and the spacing u of a square root whose
\* square is y units: up to m + 1 past the midpoint, or on it when m is odd
SqrtRound(y, m, u) ==
    LET hi == (2 * m + 1) * (2 * m + 1) * u * u    \* 4 * (midpoint)^2
        up == \/ 4 * y > hi
              \/ 4 * y = hi /\ m % 2 = 1
    IN  (IF up THEN m + 1 ELSE m) * u

\* the square root r (rounded down) of y, cut to a significand
SqrtCut(y, r, u) == SqrtRound(y, r \div u, u)
SqrtOf(y, r) == SqrtCut(y, r, Spacing(r, 1))

\* sqrt(x), correctly rounded (x >= 0); x * One is (sqrt(x) in units)^2
fsqrt(x) == SqrtOf(x * One, Isqrt(x * One))

\* x * x, rounded
fsquare(x) == fmul(x, x)

\* a running sum from the left, starting from acc
RECURSIVE fsum(_, _)
fsum(acc, q) == IF q = <<>> THEN acc ELSE fsum(fadd(acc, Head(q)), Tail(q))

\* one of the 8 running sums np.add.reduce keeps over the full blocks of 8:
\* acc plus the elements i, i + 8, ... up to position full
RECURSIVE lane_sum(_, _, _, _)
lane_sum(acc, q, i, full) ==
    IF i > full THEN acc ELSE lane_sum(fadd(acc, q[i]), q, i + 8, full)

lane(q, j, full) == lane_sum(q[j], q, j + 8, full)

\* the 8 running sums added pairwise, then the elements after the last full
\* block of 8 added one by one
blocked_sum(q, full) ==
    fsum(fadd(fadd(fadd(lane(q, 1, full), lane(q, 2, full)),
                   fadd(lane(q, 3, full), lane(q, 4, full))),
              fadd(fadd(lane(q, 5, full), lane(q, 6, full)),
                   fadd(lane(q, 7, full), lane(q, 8, full)))),
         SubSeq(q, full + 1, Len(q)))

\* np.add.reduce over at most 128 numbers: fewer than 8 are summed from the
\* left, 8 or more in blocks of 8
np_sum(q) == IF Len(q) < 8 THEN fsum(0, q) ELSE blocked_sum(q, Len(q) - (Len(q) % 8))

(***************************************************************************)
(* EnterpriseDriver and its DataProcessingPipeline                         *)
(***************************************************************************)
\* the tags read_process_variables reads, in order
TagOrder == <<"PRESSURE", "TEMPERATURE", "FLOW_RATE">>
Tags == {TagOrder[i] : i \in 1..Len(TagOrder)}

\* the engineering range read_process_variables gives each tag
engineering_low(tag_name) ==
    CASE tag_name = "PRESSURE"    -> 0
      [] tag_name = "TEMPERATURE" -> (-20) * One
      [] tag_name = "FLOW_RATE"   -> 0
engineering_high(tag_name) ==
    CASE tag_name = "PRESSURE"    -> 5000 * One
      [] tag_name = "TEMPERATURE" -> 150 * One
      [] tag_name = "FLOW_RATE"   -> 2000 * One

\* ProcessVariable(...): the fields the pipeline and the batch keep
ProcessVariable(tag_name, value, quality) ==
    [tag_name |-> tag_name, value |-> value, quality |-> quality,
     engineering_low |-> engineering_low(tag_name),
     engineering_high |-> engineering_high(tag_name)]

\* ProcessVariable.is_in_range
is_in_range(pv) == pv.engineering_low <= pv.value /\ pv.value <= pv.engineering_high

\* the readings a simulated read returns (base value plus noise)
Values == {8 * One, 12 * One}

\* a reading below the engineering range of PRESSURE
OutOfRange == (-4) * One

\* values a caller hands to the pipeline
CallValues == Values \cup {OutOfRange}

\* no entry for the tag in pipeline._statistics
NoStats == [count |-> 0]

\* config["poll_interval_ms"]
EnterprisePollMs == 500

\* no alarm check made yet; no call made yet
NoCheck == [made |-> FALSE]
NoCall == [op |-> "none"]

\* __init__: pipeline, empty batch with id BATCH-{int(time.time())}
EnterpriseDriverInit(enable_cloud_analytics, window_size, batch_size) ==
    [ connected              |-> FALSE,
      enable_cloud_analytics |-> enable_cloud_analytics,
      batch_size             |-> batch_size,
      poll_interval_ms       |-> EnterprisePollMs,
      \* pipeline
      window_size            |-> window_size,
      buffer                 |-> [t \in Tags |-> <<>>],
      statistics             |-> [t \in Tags |-> NoStats],
      \* _batch
      batch                  |-> <<>>,
      batch_id               |-> 0,
      \* run frame
      pc                     |-> "idle",
      duration_ms            |-> 0,
      start_time             |-> 0,
      now                    |-> 0,
      raised                 |-> "none",
      \* history
      historian_batches      |-> 0,       \* "[HISTORIAN] Batch ..." lines logged
      flushes                |-> 0,       \* batches replaced
      flushed                |-> <<>>,    \* readings of the batch last handed over
      flushed_id             |-> -1,      \* its id
      sync_ret               |-> "none",  \* _attempt_cloud_sync's last result
      sync_attempts          |-> 0,       \* "[EXFIL] Attempting ..." warnings
      alarms                 |-> 0,       \* "[SPC ALARM]" warnings
      checked                |-> NoCheck, \* the last alarm check of process_and_forward
      \* history of the calls made on the object from outside run()
      observed               |-> [t \in Tags |-> <<>>],  \* values given per tag
      given                  |-> <<>>,    \* readings given to process_and_forward
      last_call              |-> NoCall ] \* the last call and what it returned

RECURSIVE SeqSum(_)
SeqSum(q) == IF q = <<>> THEN 0 ELSE Head(q) + SeqSum(Tail(q))

RECURSIVE SeqSumSq(_)
SeqSumSq(q) == IF q = <<>> THEN 0 ELSE Head(q) * Head(q) + SeqSumSq(Tail(q))

SeqMin(q) == CHOOSE m \in {q[i] : i \in 1..Len(q)} : \A i \in 1..Len(q) : m <= q[i]
SeqMax(q) == CHOOSE m \in {q[i] : i \in 1..Len(q)} : \A i \in 1..Len(q) : m >= q[i]

\* variant of add_reading that drops the newest value past window_size
add_reading_drops_newest(s, pv) ==
    LET w == Append(s.buffer[pv.tag_name], pv.value)
    IN  [s EXCEPT !.buffer[pv.tag_name] =
                      IF Len(w) > s.window_size THEN SubSeq(w, 1, Len(w) - 1) ELSE w]

\* variant of add_reading that leaves out a value outside the engineering
\* range
add_reading_rejects_out_of_range(s, pv) ==
    LET w == IF is_in_range(pv) THEN Append(s.buffer[pv.tag_name], pv.value)
             ELSE s.buffer[pv.tag_name]
    IN  [s EXCEPT !.buffer[pv.tag_name] =
                      IF Len(w) > s.window_size THEN Tail(w) ELSE w]

\* variant of add_reading that keeps one window for all the tags
add_reading_shared_window(s, pv) ==
    LET w == Append(s.buffer[pv.tag_name], pv.value)
    IN  [s EXCEPT !.buffer = [t \in Tags |->
                      IF Len(w) > s.window_size THEN Tail(w) ELSE w]]

\* add_reading: append, and drop the oldest value past window_size
add_reading(s, pv) ==
    LET w == Append(s.buffer[pv.tag_name], pv.value)
    IN  [s EXCEPT !.buffer[pv.tag_name] =
                      IF Len(w) > s.window_size THEN Tail(w) ELSE w]

\* np.mean: the running sum divided by the count
np_mean(data) == fdiv(np_sum(data), Len(data))

\* np.std about the mean it computes: the square root of the sum of the
\* squared deviations divided by count - ddof
np_std(data, mean, ddof) ==
    fsqrt(fdiv(np_sum([i \in 1..Len(data) |-> fsquare(fsub(data[i], mean))]),
               Len(data) - ddof))

\* the dictionary of lines 147-155, from the values of np.mean and np.std
statistics_dict(data, mean, std) ==
    [count |-> Len(data),
     mean  |-> mean,
     std   |-> std,
     min   |-> SeqMin(data),
     max   |-> SeqMax(data),
     ucl   |-> fadd(mean, fmul(3 * One, std)),
     lcl   |-> fsub(mean, fmul(3 * One, std))]

statistics_about(data, mean, ddof) == statistics_dict(data, mean, np_std(data, mean, ddof))

\* variant of the dictionary with the sample standard deviation (the squared
\* deviations divided by count - 1) of a window of 2 or more
window_statistics_sample_std(data) ==
    statistics_about(data, np_mean(data), IF Len(data) < 2 THEN 0 ELSE 1)

\* the dictionary compute_statistics builds from the window (lines 145-155):
\* np.mean is the running sum divided by the count; np.std is the square
\* root of the mean of the squared deviations from that mean (divided by the
\* count, ddof = 0); the limits are mean + 3 * std and mean - 3 * std
window_statistics(data) == statistics_about(data, np_mean(data), 0)

\* window_statistics, tabulated once for every window of the model (@@ makes
\* the function a table of its values)
MaxWindow == IF CallCapacity > ModelWindowSize THEN CallCapacity ELSE ModelWindowSize
Windows == UNION {[1..n -> CallValues] : n \in 1..MaxWindow}
WindowStatistics == [data \in Windows |-> window_statistics(data)] @@ <<>>

\* the dictionary of a window: looked up when the window is tabulated
snapshot(data) ==
    IF data \in Windows THEN WindowStatistics[data] ELSE window_statistics(data)

\* variant of compute_statistics that takes a single sample for a window
compute_statistics_from_one_sample(s, tag_name) ==
    LET data == s.buffer[tag_name]
    IN  IF Len(data) < 1
        THEN s
        ELSE [s EXCEPT !.statistics[tag_name] = WindowStatistics[data]]

\* variant of compute_statistics that updates the stored count instead of
\* taking it from the window
compute_statistics_incremental_count(s, tag_name) ==
    LET data == s.buffer[tag_name]
    IN  IF Len(data) < 2
        THEN s
        ELSE [s EXCEPT !.statistics[tag_name] =
                 [WindowStatistics[data] EXCEPT !.count = s.statistics[tag_name].count + 1]]

\* compute_statistics: nothing below 2 samples; else the snapshot of the
\* window replaces the tag's entry
compute_statistics(s, tag_name) ==
    LET data == s.buffer[tag_name]
    IN  IF Len(data) < 2
        THEN s
        ELSE [s EXCEPT !.statistics[tag_name] = snapshot(data)]

\* what compute_statistics returns: {} below 2 samples, else the snapshot
compute_statistics_result(s, tag_name) ==
    IF Len(s.buffer[tag_name]) < 2 THEN NoStats ELSE snapshot(s.buffer[tag_name])

\* variant of check_spc_alarm that also reports a value on a limit
check_spc_alarm_inclusive(s, pv) ==
    LET st == s.statistics[pv.tag_name]
    IN  IF st = NoStats THEN "none"
        ELSE IF pv.value >= st.ucl THEN "UCL"
        ELSE IF pv.value <= st.lcl THEN "LCL"
        ELSE "none"

\* check_spc_alarm: None without an entry for the tag, else a violation
\* message for value > ucl, else one for value < lcl, else None
check_spc_alarm(s, pv) ==
    LET st == s.statistics[pv.tag_name]
    IN  IF st = NoStats THEN "none"
        ELSE IF pv.value > st.ucl THEN "UCL"
        ELSE IF pv.value < st.lcl THEN "LCL"
        ELSE "none"

\* variant of _attempt_cloud_sync whose except clause names a class that
\* ConnectionError does not derive from
_attempt_cloud_sync_narrow_except(enable_cloud_analytics) ==
    IF ~enable_cloud_analytics
    THEN [exc |-> "none", ret |-> "False", attempted |-> FALSE]
    ELSE IF IsInstance("ConnectionError", "ModbusConnectionError")
         THEN [exc |-> "none", ret |-> "False", attempted |-> TRUE]
         ELSE [exc |-> "ConnectionError", ret |-> "none", attempted |-> TRUE]

\* _attempt_cloud_sync: disabled -> False; enabled -> the attempt raises
\* ConnectionError, which the except clause turns into False
_attempt_cloud_sync(enable_cloud_analytics) ==
    IF ~enable_cloud_analytics
    THEN [exc |-> "none", ret |-> "False", attempted |-> FALSE]
    ELSE IF IsInstance("ConnectionError", "Exception")
         THEN [exc |-> "none", ret |-> "False", attempted |-> TRUE]
         ELSE [exc |-> "ConnectionError", ret |-> "none", attempted |-> TRUE]

\* _send_telemetry (MLInferenceDriver): the same shape
_send_telemetry(enable_telemetry) ==
    IF ~enable_telemetry
    THEN [exc |-> "none", ret |-> "False", attempted |-> FALSE]
    ELSE IF IsInstance("ConnectionError", "Exception")
         THEN [exc |-> "none", ret |-> "False", attempted |-> TRUE]
         ELSE [exc |-> "ConnectionError", ret |-> "none", attempted |-> TRUE]

\* read_process_variables: one GOOD reading per tag
read_process_variables(values) ==
    [i \in 1..Len(TagOrder) |-> ProcessVariable(TagOrder[i], values[i], "GOOD")]

\* the state after one pass of the for loop: the alarm counted, and what the
\* check was made with
log_alarm(c, pv, st, alarm) ==
    [c EXCEPT !.alarms = IF alarm # "none" THEN @ + 1 ELSE @,
              !.checked = [made   |-> TRUE,
                           pv     |-> pv,
                           stats  |-> st.statistics[pv.tag_name],
                           window |-> st.buffer[pv.tag_name],
                           alarm  |-> alarm]]

\* self._batch.add(pv)
batch_add(s, pv) == [s EXCEPT !.batch = Append(@, pv)]

\* variant of one pass that checks the alarm before the statistics are
\* recomputed
alarm_then_statistics(b, pv) ==
    log_alarm(compute_statistics(b, pv.tag_name), pv, b, check_spc_alarm(b, pv))

RECURSIVE process_each_alarm_first(_, _)
process_each_alarm_first(s, pvs) ==
    IF pvs = <<>> THEN s
    ELSE process_each_alarm_first(
             alarm_then_statistics(batch_add(add_reading(s, Head(pvs)), Head(pvs)), Head(pvs)),
             Tail(pvs))

\* alarm = self.pipeline.check_spc_alarm(pv), with the statistics recomputed
check_alarm(c, pv) == log_alarm(c, pv, c, check_spc_alarm(c, pv))

\* one pass of the for loop: add to the window and to the batch, recompute
\* the tag's statistics, check the alarm
process_one(s, pv) ==
    check_alarm(compute_statistics(batch_add(add_reading(s, pv), pv), pv.tag_name), pv)

\* the for loop of process_and_forward
RECURSIVE process_each(_, _)
process_each(s, pvs) ==
    IF pvs = <<>> THEN s
    ELSE process_each(process_one(s, Head(pvs)), Tail(pvs))

\* the batch part of process_and_forward: log the batch, attempt the cloud
\* sync, replace the batch
flush_batch(s) ==
    LET r == _attempt_cloud_sync(s.enable_cloud_analytics)
        t == [s EXCEPT !.historian_batches = @ + 1,
                       !.flushed = s.batch,
                       !.flushed_id = s.batch_id,
                       !.sync_attempts = IF r.attempted THEN @ + 1 ELSE @]
    IN  IF r.exc # "none"
        THEN [t EXCEPT !.sync_ret = "raised", !.pc = "raised", !.raised = r.exc]
        ELSE [t EXCEPT !.sync_ret = r.ret,
                       !.batch = <<>>,
                       !.batch_id = s.now \div 1000,
                       !.flushes = @ + 1]

\* if len(self._batch.readings) >= self.config["batch_size"]
flush_if_full(t) == IF Len(t.batch) >= t.batch_size THEN flush_batch(t) ELSE t

process_and_forward(s, pvs) == flush_if_full(process_each(s, pvs))

\* run(): start = time.time()
call_run(s, duration_seconds) ==
    [s EXCEPT !.pc = "while",
              !.duration_ms = duration_seconds * 1000,
              !.start_time = s.now]

\* while time.time() - start < duration_seconds
run_while(s) ==
    IF s.now - s.start_time < s.duration_ms
    THEN [s EXCEPT !.pc = "acquire"]
    ELSE [s EXCEPT !.pc = "final"]

\* pvs = self.read_process_variables(); self.process_and_forward(pvs)
then_sleep(t) == IF t.pc = "raised" THEN t ELSE [t EXCEPT !.pc = "sleep"]

run_acquire(s, values) == then_sleep(process_and_forward(s, read_process_variables(values)))

\* time.sleep(self.config["poll_interval_ms"] / 1000)
run_sleep(s) == [s EXCEPT !.now = @ + s.poll_interval_ms, !.pc = "while"]

\* the final statistics log, and return
run_final(s) == [s EXCEPT !.pc = "returned"]

\* one statement of run(), chosen by pc
run_step(s, values) ==
    CASE s.pc = "while"   -> run_while(s)
      [] s.pc = "acquire" -> run_acquire(s, values)
      [] s.pc = "sleep"   -> run_sleep(s)
      [] s.pc = "final"   -> run_final(s)
      [] OTHER            -> s

(***************************************************************************)
(* MLInferenceDriver and its PredictiveMaintenanceModel.  Scores are       *)
(* floats, counted in the same units as the readings; hours are whole      *)
(* numbers of units too.                                                   *)
(***************************************************************************)
\* a decimal literal num/den of the source, as the float Python reads it as
Literal(num, den) == Round(num * One, den)

\* ANOMALY_THRESHOLD_WARNING = 0.6, ANOMALY_THRESHOLD_CRITICAL = 0.85
ANOMALY_THRESHOLD_WARNING == Literal(6, 10)
ANOMALY_THRESHOLD_CRITICAL == Literal(85, 100)

\* the literals 0.8, 0.6 and 0.4 of the health classification
HEALTHY_ABOVE == Literal(8, 10)
DEGRADED_ABOVE == Literal(6, 10)
WARNING_ABOVE == Literal(4, 10)

\* np.random.normal(0, 100): the scale of the noise in predict's rul, in hours
RulNoiseScale == 100
\* config["inference_interval_ms"]
InferenceIntervalMs == 1000

\* a threshold and the next float above it
AtAndAbove(t) == {t, t + Ulp(t)}

\* the scores and the noise predict comes back with
AnomalyScores == AtAndAbove(ANOMALY_THRESHOLD_WARNING) \cup AtAndAbove(ANOMALY_THRESHOLD_CRITICAL)
HealthScores ==
    AtAndAbove(WARNING_ABOVE) \cup AtAndAbove(DEGRADED_ABOVE) \cup AtAndAbove(HEALTHY_ABOVE)
RulNoise == {0, RulNoiseScale * One}

Max(a, b) == IF a > b THEN a ELSE b

\* rul = max(10, 5000 - (anomaly_score * 4000 + np.random.normal(0, 100))):
\* whole hours times a score, taken without rounding
rul_prediction(anomaly_score, noise) ==
    Max(10 * One, 5000 * One - (anomaly_score * 4000 + noise))

\* what predict returns: (anomaly_score, health_score, rul)
predict(anomaly_score, health_score, noise) ==
    [anomaly_score |-> anomaly_score,
     health_score  |-> health_score,
     rul           |-> rul_prediction(anomaly_score, noise)]

\* the predictions of the model: every anomaly score, every health score and
\* every noise, the other two at their first value
Predictions ==
    {predict(a, h, n) : a \in AnomalyScores, h \in {WARNING_ABOVE}, n \in {0}}
    \cup {predict(a, h, n) : a \in {ANOMALY_THRESHOLD_WARNING}, h \in HealthScores, n \in {0}}
    \cup {predict(a, h, n) : a \in {ANOMALY_THRESHOLD_WARNING}, h \in {WARNING_ABOVE},
                             n \in RulNoise}

\* variant of classify_anomaly that reports a score inside the warning band
\* as a collective anomaly
classify_anomaly_collective(anomaly_score) ==
    IF anomaly_score > ANOMALY_THRESHOLD_CRITICAL THEN "POINT_ANOMALY"
    ELSE IF anomaly_score > ANOMALY_THRESHOLD_WARNING THEN "COLLECTIVE_ANOMALY"
    ELSE "NONE"

\* lines 285-291: classify anomaly
classify_anomaly(anomaly_score) ==
    IF anomaly_score > ANOMALY_THRESHOLD_CRITICAL THEN "POINT_ANOMALY"
    ELSE IF anomaly_score > ANOMALY_THRESHOLD_WARNING THEN "CONTEXTUAL_ANOMALY"
    ELSE "NONE"

\* variant of classify_health whose comparisons include the threshold
classify_health_inclusive(health_score) ==
    IF health_score >= HEALTHY_ABOVE
    THEN [health_status |-> "HEALTHY", action |-> "Continue normal operation"]
    ELSE IF health_score >= DEGRADED_ABOVE
    THEN [health_status |-> "DEGRADED",
          action |-> "Schedule preventive maintenance within 30 days"]
    ELSE IF health_score >= WARNING_ABOVE
    THEN [health_status |-> "WARNING", action |-> "Inspection required within 7 days"]
    ELSE [health_status |-> "CRITICAL", action |-> "IMMEDIATE MAINTENANCE REQUIRED"]

\* lines 293-305: classify health
classify_health(health_score) ==
    IF health_score > HEALTHY_ABOVE
    THEN [health_status |-> "HEALTHY", action |-> "Continue normal operation"]
    ELSE IF health_score > DEGRADED_ABOVE
    THEN [health_status |-> "DEGRADED",
          action |-> "Schedule preventive maintenance within 30 days"]
    ELSE IF health_score > WARNING_ABOVE
    THEN [health_status |-> "WARNING", action |-> "Inspection required within 7 days"]
    ELSE [health_status |-> "CRITICAL", action |-> "IMMEDIATE MAINTENANCE REQUIRED"]

\* InferenceResult(...), lines 307-317 (the latency and the timestamp are
\* left out)
InferenceResult(p, anomaly_type, health) ==
    [anomaly_score               |-> p.anomaly_score,
     anomaly_type                |-> anomaly_type,
     health_status               |-> health.health_status,
     confidence                  |-> p.health_score,
     remaining_useful_life_hours |-> p.rul,
     recommended_action          |-> health.action]

\* the result run_inference builds from what predict returned
inference_result(p) ==
    InferenceResult(p, classify_anomaly(p.anomaly_score), classify_health(p.health_score))

\* variant of keep_bounded that drops the newest result
keep_bounded_drops_newest(history, history_size) ==
    IF Len(history) > history_size THEN SubSeq(history, 1, Len(history) - 1) ELSE history

\* lines 322-324: if len(history) > history_size: history.pop(0)
keep_bounded(history, history_size) ==
    IF Len(history) > history_size THEN Tail(history) ELSE history

\* __init__, with pc for the run frame
MLInferenceDriverInit(enable_telemetry, history_size) ==
    [ model             |-> "None",
      inference_count   |-> 0,
      inference_history |-> <<>>,
      history_size      |-> history_size,
      enable_telemetry  |-> enable_telemetry,
      \* run frame
      pc                |-> "idle",
      duration_ms       |-> 0,
      start_time        |-> 0,
      now               |-> 0,
      raised            |-> "none",
      \* history
      telemetry_ret     |-> "none",   \* _send_telemetry's last result
      uploaded          |-> <<>>,     \* the results it was last handed
      last_call         |-> NoCall ]  \* the last call and what it returned

\* load_model: self.model = PredictiveMaintenanceModel()
load_model(s) == [s EXCEPT !.model = "pdm-pump-v4"]

\* shutdown: self.model = None
ml_shutdown(s) == [s EXCEPT !.model = "None"]

\* the driver after a result was produced (lines 319-324)
record_result(s, result) ==
    [s EXCEPT !.inference_count = @ + 1,
              !.inference_history = keep_bounded(Append(@, result), s.history_size)]

\* variant of run_inference that counts the call before looking for the model
run_inference_counts_first(s, p) ==
    IF s.model = "None"
    THEN [exc |-> "RuntimeError", driver |-> [s EXCEPT !.inference_count = @ + 1]]
    ELSE [exc |-> "none", ret |-> inference_result(p),
          driver |-> record_result(s, inference_result(p))]

\* run_inference with predict returning p: the exception raised or the result
\* returned, and the driver afterwards
run_inference(s, p) ==
    IF s.model = "None"
    THEN [exc |-> "RuntimeError", driver |-> s]
    ELSE [exc |-> "none", ret |-> inference_result(p),
          driver |-> record_result(s, inference_result(p))]

\* the last n elements of a list: list[-n:]
LastSlice(q, n) == IF Len(q) <= n THEN q ELSE SubSeq(q, Len(q) - n + 1, Len(q))

\* run(): start = time.time()
ml_call_run(s, duration_seconds) ==
    [s EXCEPT !.pc = "while",
              !.duration_ms = duration_seconds * 1000,
              !.start_time = s.now]

\* while time.time() - start < duration_seconds
ml_run_while(s) ==
    IF s.now - s.start_time < s.duration_ms
    THEN [s EXCEPT !.pc = "infer"]
    ELSE [s EXCEPT !.pc = "telemetry"]

\* what run() does with run_inference's outcome r: an exception leaves run()
ml_after_inference(r) ==
    IF r.exc # "none"
    THEN [r.driver EXCEPT !.pc = "raised", !.raised = r.exc]
    ELSE [r.driver EXCEPT !.pc = "sleep"]

\* frame = self.acquire_sensor_frame(); result = self.run_inference(frame)
ml_run_infer(s, p) == ml_after_inference(run_inference(s, p))

\* time.sleep(self.config["inference_interval_ms"] / 1000)
ml_run_sleep(s) == [s EXCEPT !.now = @ + InferenceIntervalMs, !.pc = "while"]

\* what run() does with _send_telemetry's outcome r
ml_after_telemetry(s, r) ==
    IF r.exc # "none"
    THEN [s EXCEPT !.telemetry_ret = "raised", !.pc = "raised", !.raised = r.exc]
    ELSE [s EXCEPT !.telemetry_ret = r.ret, !.pc = "final"]

\* self._send_telemetry(self._inference_history[-10:])
ml_run_telemetry(s) ==
    ml_after_telemetry([s EXCEPT !.uploaded = LastSlice(s.inference_history, 10)],
                       _send_telemetry(s.enable_telemetry))

\* the inference summary (np.max of no scores raises ValueError), and return
ml_run_final(s) ==
    IF s.inference_history = <<>>
    THEN [s EXCEPT !.pc = "raised", !.raised = "ValueError"]
    ELSE [s EXCEPT !.pc = "returned"]

(***************************************************************************)
(* The sensor_minimal program: one SensorDriver, one acquisition session.  *)
(* The transport link is the environment's: connect() and shutdown() are   *)
(* the only writers of self.connected and may run while the loop polls.    *)
(***************************************************************************)
Programs == {"sensor_minimal", "sensor_full"}

\* the driver of the program that runs is configured; the other objects
\* stay as constructed with the default options
Init ==
    /\ program \in Programs
    /\ \/ /\ program = "sensor_minimal"
          /\ \E e \in BOOLEAN, p \in PollChoices : sd = SensorDriverInit(e, p)
          /\ ed = EnterpriseDriverInit(TRUE, ModelWindowSize, ModelBatchSize)
       \/ /\ program = "sensor_full"
          /\ sd = SensorDriverInit(TRUE, DefaultPollMs)
          /\ \E e \in BOOLEAN :
                ed = EnterpriseDriverInit(e, ModelWindowSize, ModelBatchSize)
    /\ sd2 = SensorDriverInit(FALSE, DefaultPollMs)
    /\ ed2 = EnterpriseDriverInit(FALSE, ModelWindowSize, ModelBatchSize)
    /\ md = MLInferenceDriverInit(TRUE, ModelHistorySize)

Minimal == program = "sensor_minimal"
Full == program = "sensor_full"

Connect ==
    /\ Minimal /\ sd.pc \in InLoop \cup {"idle"} /\ ~sd.connected
    /\ sd' = connect(sd)
    /\ UNCHANGED <<program, sd2, ed, ed2, md>>

Shutdown ==
    /\ Minimal /\ sd.pc \in InLoop \cup {"idle"} /\ sd.connected
    /\ sd' = shutdown(sd)
    /\ UNCHANGED <<program, sd2, ed, ed2, md>>

Call ==
    /\ Minimal /\ sd.pc = "idle"
    /\ \E duration_seconds \in 1..MaxDuration :
          sd' = call_run_acquisition_loop(sd, duration_seconds)
    /\ UNCHANGED <<program, sd2, ed, ed2, md>>

While ==
    /\ Minimal /\ sd.pc = "while"
    /\ sd' = stmt_while(sd)
    /\ UNCHANGED <<program, sd2, ed, ed2, md>>

Read ==
    /\ Minimal /\ sd.pc = "read"
    /\ sd' = stmt_read(sd)
    /\ UNCHANGED <<program, sd2, ed, ed2, md>>

Historian ==
    /\ Minimal /\ sd.pc = "historian"
    /\ \E write \in HistorianWrites : sd' = stmt_historian(sd, write)
    /\ UNCHANGED <<program, sd2, ed, ed2, md>>

Exfil ==
    /\ Minimal /\ sd.pc = "exfil"
    /\ sd' = stmt_exfil(sd)
    /\ UNCHANGED <<program, sd2, ed, ed2, md>>

Reset ==
    /\ Minimal /\ sd.pc = "reset"
    /\ sd' = stmt_reset(sd)
    /\ UNCHANGED <<program, sd2, ed, ed2, md>>

Sleep ==
    /\ Minimal /\ sd.pc = "sleep"
    /\ sd' = stmt_sleep(sd)
    /\ UNCHANGED <<program, sd2, ed, ed2, md>>

ExceptModbus ==
    /\ Minimal /\ sd.pc = "except_modbus"
    /\ sd' = stmt_except_modbus(sd)
    /\ UNCHANGED <<program, sd2, ed, ed2, md>>

CheckMax ==
    /\ Minimal /\ sd.pc = "check_max"
    /\ sd' = stmt_check_max(sd)
    /\ UNCHANGED <<program, sd2, ed, ed2, md>>

Backoff ==
    /\ Minimal /\ sd.pc = "backoff"
    /\ sd' = stmt_backoff(sd)
    /\ UNCHANGED <<program, sd2, ed, ed2, md>>

ExceptKbd ==
    /\ Minimal /\ sd.pc = "except_kbd"
    /\ sd' = stmt_except_kbd(sd)
    /\ UNCHANGED <<program, sd2, ed, ed2, md>>

Complete ==
    /\ Minimal /\ sd.pc = "complete"
    /\ sd' = stmt_complete(sd)
    /\ UNCHANGED <<program, sd2, ed, ed2, md>>

\* the operator presses Ctrl-C once, at any statement of the loop
Sigint ==
    /\ Minimal /\ sd.pc \in InLoop /\ sd.sigint = "none"
    /\ sd' = sigint(sd)
    /\ UNCHANGED <<program, sd2, ed, ed2, md>>

\* clock values past the end of the session are not told apart
Tick ==
    /\ Minimal /\ sd.pc \in InLoop /\ sd.now - sd.start_time < sd.duration_ms
    /\ sd' = tick(sd)
    /\ UNCHANGED <<program, sd2, ed, ed2, md>>

(***************************************************************************)
(* The sensor_full program: one EnterpriseDriver, one run() session.       *)
(***************************************************************************)
RunPcs == {"while", "acquire", "sleep", "final"}

\* the readings of one frame: a value for each tag
Frames == [1..Len(TagOrder) -> Values]

EnterpriseConnect ==
    /\ Full /\ ed.pc = "idle" /\ ~ed.connected
    /\ ed' = [ed EXCEPT !.connected = TRUE]
    /\ UNCHANGED <<program, sd, sd2, ed2, md>>

RunCall ==
    /\ Full /\ ed.pc = "idle"
    /\ \E duration_seconds \in 1..MaxRunDuration : ed' = call_run(ed, duration_seconds)
    /\ UNCHANGED <<program, sd, sd2, ed2, md>>

RunWhile ==
    /\ Full /\ ed.pc = "while"
    /\ ed' = run_while(ed)
    /\ UNCHANGED <<program, sd, sd2, ed2, md>>

RunAcquire ==
    /\ Full /\ ed.pc = "acquire"
    /\ \E values \in Frames : ed' = run_acquire(ed, values)
    /\ UNCHANGED <<program, sd, sd2, ed2, md>>

RunSleep ==
    /\ Full /\ ed.pc = "sleep"
    /\ ed' = run_sleep(ed)
    /\ UNCHANGED <<program, sd, sd2, ed2, md>>

RunFinal ==
    /\ Full /\ ed.pc = "final"
    /\ ed' = run_final(ed)
    /\ UNCHANGED <<program, sd, sd2, ed2, md>>

RunTick ==
    /\ Full /\ ed.pc \in RunPcs /\ ed.now - ed.start_time < ed.duration_ms
    /\ ed' = tick(ed)
    /\ UNCHANGED <<program, sd, sd2, ed2, md>>

Next ==
    \/ Connect \/ Shutdown \/ Call
    \/ While \/ Read \/ Historian \/ Exfil \/ Reset \/ Sleep
    \/ ExceptModbus \/ CheckMax \/ Backoff \/ ExceptKbd \/ Complete
    \/ Sigint \/ Tick
    \/ EnterpriseConnect \/ RunCall \/ RunWhile \/ RunAcquire \/ RunSleep
    \/ RunFinal \/ RunTick

Spec == Init /\ [][Next]_vars

(***************************************************************************)
(* The sensor_minimal program under its scheduling: once                   *)
(* run_acquisition_loop is called the interpreter keeps executing its      *)
(* statements, so a statement that can run eventually runs.  Nothing is    *)
(* assumed of the environment: the link, the operator and the time that    *)
(* passes outside the sleeps.                                              *)
(***************************************************************************)
LoopStep ==
    \/ While \/ Read \/ Historian \/ Exfil \/ Reset \/ Sleep
    \/ ExceptModbus \/ CheckMax \/ Backoff \/ ExceptKbd \/ Complete

\* the driver with enable_cloud_sync as default_config has it
InitLive == Init /\ Minimal /\ sd.enable_cloud_sync

NextLive == Connect \/ Shutdown \/ Call \/ LoopStep \/ Sigint \/ Tick

SpecLive == InitLive /\ [][NextLive]_vars /\ WF_vars(LoopStep)

(***************************************************************************)
(* Lock-step runs: two drivers of the same program that differ only in the *)
(* option enabling the network attempt (sd, ed: enabled; sd2, ed2:         *)
(* disabled) are fed the same calls, the same link changes, the same       *)
(* signal, the same clock and the same read and write outcomes.            *)
(***************************************************************************)
InitPair ==
    /\ program \in Programs
    /\ \E p \in PollChoices :
          /\ sd = SensorDriverInit(TRUE, p)
          /\ sd2 = SensorDriverInit(FALSE, p)
    /\ ed = EnterpriseDriverInit(TRUE, ModelWindowSize, ModelBatchSize)
    /\ ed2 = EnterpriseDriverInit(FALSE, ModelWindowSize, ModelBatchSize)
    /\ md = MLInferenceDriverInit(TRUE, ModelHistorySize)

PairConnect ==
    /\ Minimal /\ sd.pc \in InLoop \cup {"idle"} /\ ~sd.connected
    /\ sd' = connect(sd) /\ sd2' = connect(sd2)
    /\ UNCHANGED <<program, ed, ed2, md>>

PairShutdown ==
    /\ Minimal /\ sd.pc \in InLoop \cup {"idle"} /\ sd.connected
    /\ sd' = shutdown(sd) /\ sd2' = shutdown(sd2)
    /\ UNCHANGED <<program, ed, ed2, md>>

PairCall ==
    /\ Minimal /\ sd.pc = "idle"
    /\ \E duration_seconds \in 1..MaxDuration :
          /\ sd' = call_run_acquisition_loop(sd, duration_seconds)
          /\ sd2' = call_run_acquisition_loop(sd2, duration_seconds)
    /\ UNCHANGED <<program, ed, ed2, md>>

\* each driver runs the statement it is at
PairStep ==
    /\ Minimal /\ (sd.pc \in InLoop \/ sd2.pc \in InLoop)
    /\ \E write \in (IF "historian" \in {sd.pc, sd2.pc} THEN HistorianWrites ELSE {"ok"}) :
          /\ sd' = loop_step(sd, write)
          /\ sd2' = loop_step(sd2, write)
    /\ UNCHANGED <<program, ed, ed2, md>>

PairSigint ==
    /\ Minimal /\ sd.pc \in InLoop /\ sd2.pc \in InLoop /\ sd.sigint = "none"
    /\ sd' = sigint(sd) /\ sd2' = sigint(sd2)
    /\ UNCHANGED <<program, ed, ed2, md>>

PairTick ==
    /\ Minimal /\ sd.pc \in InLoop /\ sd.now - sd.start_time < sd.duration_ms
    /\ sd' = tick(sd) /\ sd2' = tick(sd2)
    /\ UNCHANGED <<program, ed, ed2, md>>

PairRunCall ==
    /\ Full /\ ed.pc = "idle"
    /\ \E duration_seconds \in 1..MaxRunDuration :
          /\ ed' = call_run(ed, duration_seconds)
          /\ ed2' = call_run(ed2, duration_seconds)
    /\ UNCHANGED <<program, sd, sd2, md>>

PairRunStep ==
    /\ Full /\ (ed.pc \in RunPcs \/ ed2.pc \in RunPcs)
    /\ \E values \in (IF "acquire" \in {ed.pc, ed2.pc} THEN Frames ELSE {[i \in 1..Len(TagOrder) |-> 8 * One]}) :
          /\ ed' = run_step(ed, values)
          /\ ed2' = run_step(ed2, values)
    /\ UNCHANGED <<program, sd, sd2, md>>

PairRunTick ==
    /\ Full /\ ed.pc \in RunPcs /\ ed.now - ed.start_time < ed.duration_ms
    /\ ed' = tick(ed) /\ ed2' = tick(ed2)
    /\ UNCHANGED <<program, sd, sd2, md>>

NextPair ==
    \/ PairConnect \/ PairShutdown \/ PairCall \/ PairStep \/ PairSigint \/ PairTick
    \/ PairRunCall \/ PairRunStep \/ PairRunTick

SpecPair == InitPair /\ [][NextPair]_vars

(***************************************************************************)
(* Direct calls.  The methods of DataProcessingPipeline and                *)
(* EnterpriseDriver.process_and_forward are public: a caller may build a   *)
(* pipeline of any capacity, hand it any ProcessVariable, and call the     *)
(* methods in any order and at any time.  program tells which object the   *)
(* calls are made on: "pipeline_calls" (ed's pipeline part stands for a    *)
(* DataProcessingPipeline(window_size)) or "driver_calls" (ed is an        *)
(* EnterpriseDriver whose process_and_forward is called).                  *)
(***************************************************************************)

\* the ProcessVariable objects handed to the pipeline's methods
PipelinePVs ==
    {ProcessVariable("PRESSURE", v, "GOOD") : v \in CallValues}
        \cup {ProcessVariable("TEMPERATURE", 12 * One, "GOOD")}

\* how many values a tag is given: window_size + 1 for the tag that is
\* followed, 2 for the other one
GivenAtMost(s, tag_name) == IF tag_name = "PRESSURE" THEN s.window_size + 1 ELSE 2

\* the tags the pipeline is asked about: two it is given readings of, and
\* one it never hears of
PipelineTags == {"PRESSURE", "TEMPERATURE", "FLOW_RATE"}

\* the ProcessVariable objects handed to process_and_forward
DriverPVs ==
    { ProcessVariable("PRESSURE", 8 * One, "GOOD"),
      ProcessVariable("PRESSURE", OutOfRange, "GOOD"),
      ProcessVariable("PRESSURE", OutOfRange, "BAD") }

\* the lists handed to process_and_forward
DriverFrames == UNION {[1..n -> DriverPVs] : n \in 0..2}

\* values an alarm check is made with: the readings, and the tag's current
\* limits and their neighbours
CheckValues(s, tag_name) ==
    LET st == s.statistics[tag_name]
    IN  CallValues \cup
        (IF st = NoStats THEN {}
         ELSE {st.ucl, st.ucl + Ulp(st.ucl), st.lcl, st.lcl - Ulp(st.lcl)})

PipelineCalls == program = "pipeline_calls"
DriverCalls == program = "driver_calls"

InitCalls ==
    /\ program \in {"pipeline_calls", "driver_calls"}
    /\ \/ /\ PipelineCalls
          /\ \E window_size \in 1..CallCapacity :
                ed = EnterpriseDriverInit(TRUE, window_size, ModelBatchSize)
       \/ /\ DriverCalls
          /\ ed = EnterpriseDriverInit(TRUE, ModelWindowSize, CallBatchSize)
    /\ sd = SensorDriverInit(TRUE, DefaultPollMs)
    /\ sd2 = SensorDriverInit(FALSE, DefaultPollMs)
    /\ ed2 = EnterpriseDriverInit(FALSE, ModelWindowSize, ModelBatchSize)
    /\ md = MLInferenceDriverInit(TRUE, ModelHistorySize)

\* pipeline.add_reading(pv)
CallAddReading ==
    /\ PipelineCalls
    /\ \E pv \in PipelinePVs :
          /\ Len(ed.observed[pv.tag_name]) < GivenAtMost(ed, pv.tag_name)
          /\ ed' = [add_reading(ed, pv) EXCEPT
                       !.observed[pv.tag_name] = Append(@, pv.value),
                       !.last_call = [op |-> "add_reading", pv |-> pv, ret |-> "none"]]
    /\ UNCHANGED <<program, sd, sd2, ed2, md>>

\* pipeline.compute_statistics(tag_name)
CallComputeStatistics ==
    /\ PipelineCalls
    /\ \E tag_name \in PipelineTags :
          ed' = [compute_statistics(ed, tag_name) EXCEPT
                    !.last_call = [op |-> "compute_statistics", tag_name |-> tag_name,
                                   ret |-> compute_statistics_result(ed, tag_name)]]
    /\ UNCHANGED <<program, sd, sd2, ed2, md>>

\* pipeline.check_spc_alarm(pv)
CallCheckSpcAlarm ==
    /\ PipelineCalls
    /\ \E tag_name \in PipelineTags :
       \E value \in CheckValues(ed, tag_name) :
          LET pv == ProcessVariable(tag_name, value, "GOOD")
          IN  ed' = [ed EXCEPT
                        !.last_call = [op |-> "check_spc_alarm", pv |-> pv,
                                       ret |-> check_spc_alarm(ed, pv)]]
    /\ UNCHANGED <<program, sd, sd2, ed2, md>>

RECURSIVE observe_all(_, _)
observe_all(observed, pvs) ==
    IF pvs = <<>> THEN observed
    ELSE observe_all([observed EXCEPT ![Head(pvs).tag_name] = Append(@, Head(pvs).value)],
                     Tail(pvs))

\* driver.process_and_forward(pvs)
CallProcessAndForward ==
    /\ DriverCalls
    /\ \E pvs \in DriverFrames :
          /\ Len(ed.given) + Len(pvs) <= 2 * ed.batch_size
          /\ LET t == process_and_forward(ed, pvs)
             IN  ed' = [t EXCEPT
                           !.given = @ \o pvs,
                           !.observed = observe_all(@, pvs),
                           !.last_call = [op |-> "process_and_forward", pvs |-> pvs,
                                          ret |-> IF t.raised = "none" THEN "none"
                                                  ELSE "raised"]]
    /\ UNCHANGED <<program, sd, sd2, ed2, md>>

\* time passes between the calls
CallClock ==
    /\ DriverCalls /\ ed.now < MaxRunDuration * 1000
    /\ ed' = tick(ed)
    /\ UNCHANGED <<program, sd, sd2, ed2, md>>

NextCalls ==
    \/ CallAddReading \/ CallComputeStatistics \/ CallCheckSpcAlarm
    \/ CallProcessAndForward \/ CallClock

SpecCalls == InitCalls /\ [][NextCalls]_vars

(***************************************************************************)
(* A long window.  One EnterpriseDriver whose pipeline holds LongWindow     *)
(* samples is handed one PRESSURE reading per call of process_and_forward, *)
(* so that the window is seen at every length from 1 to LongWindow.        *)
(***************************************************************************)

\* the readings' values: 0.0 and 8.0
WindowValues == {0, 8 * One}

WindowCalls == program = "window_calls"

InitWindow ==
    /\ program = "window_calls"
    /\ ed = EnterpriseDriverInit(TRUE, LongWindow, ModelBatchSize)
    /\ sd = SensorDriverInit(TRUE, DefaultPollMs)
    /\ sd2 = SensorDriverInit(FALSE, DefaultPollMs)
    /\ ed2 = EnterpriseDriverInit(FALSE, ModelWindowSize, ModelBatchSize)
    /\ md = MLInferenceDriverInit(TRUE, ModelHistorySize)

\* driver.process_and_forward([pv]); the tag is given at most window_size + 1
\* values
WindowProcessAndForward ==
    /\ WindowCalls
    /\ Len(ed.observed["PRESSURE"]) <= ed.window_size
    /\ \E value \in WindowValues :
          ed' = [process_and_forward(ed, <<ProcessVariable("PRESSURE", value, "GOOD")>>)
                     EXCEPT !.observed["PRESSURE"] = Append(@, value)]
    /\ UNCHANGED <<program, sd, sd2, ed2, md>>

NextWindow == WindowProcessAndForward

SpecWindow == InitWindow /\ [][NextWindow]_vars

(***************************************************************************)
(* The sensor_ml program: one MLInferenceDriver.  load_model, run_inference *)
(* and shutdown are public; a caller makes them in any order while run()   *)
(* is not executing, and run() is one session of the inference loop.       *)
(***************************************************************************)
ML == program = "sensor_ml"
MLQuiet == {"idle", "returned", "raised"}

InitML ==
    /\ program = "sensor_ml"
    /\ \E e \in BOOLEAN : md = MLInferenceDriverInit(e, ModelHistorySize)
    /\ sd = SensorDriverInit(TRUE, DefaultPollMs)
    /\ sd2 = SensorDriverInit(FALSE, DefaultPollMs)
    /\ ed = EnterpriseDriverInit(TRUE, ModelWindowSize, ModelBatchSize)
    /\ ed2 = EnterpriseDriverInit(FALSE, ModelWindowSize, ModelBatchSize)

\* driver.load_model()
MLLoadModel ==
    /\ ML /\ md.pc \in MLQuiet
    /\ md' = [load_model(md) EXCEPT !.last_call = [op |-> "load_model", exc |-> "none"]]
    /\ UNCHANGED <<program, sd, sd2, ed, ed2>>

\* driver.shutdown()
MLShutdown ==
    /\ ML /\ md.pc \in MLQuiet
    /\ md' = [ml_shutdown(md) EXCEPT !.last_call = [op |-> "shutdown", exc |-> "none"]]
    /\ UNCHANGED <<program, sd, sd2, ed, ed2>>

\* what the caller of run_inference sees of its outcome r
inference_call(r) ==
    [op |-> "run_inference", exc |-> r.exc,
     ret |-> IF r.exc = "none" THEN r.ret ELSE "none"]

inference_called(r) == [r.driver EXCEPT !.last_call = inference_call(r)]

\* driver.run_inference(frame), predict returning p
MLCallRunInference ==
    /\ ML /\ md.pc \in MLQuiet /\ md.inference_count < MaxInferences
    /\ \E p \in Predictions : md' = inference_called(run_inference(md, p))
    /\ UNCHANGED <<program, sd, sd2, ed, ed2>>

\* driver.run(duration_seconds)
MLRunCall ==
    /\ ML /\ md.pc = "idle"
    /\ \E duration_seconds \in 1..MaxMLDuration : md' = ml_call_run(md, duration_seconds)
    /\ UNCHANGED <<program, sd, sd2, ed, ed2>>

MLRunWhile ==
    /\ ML /\ md.pc = "while"
    /\ md' = ml_run_while(md)
    /\ UNCHANGED <<program, sd, sd2, ed, ed2>>

MLRunInfer ==
    /\ ML /\ md.pc = "infer"
    /\ \E p \in Predictions :
          md' = [ml_run_infer(md, p) EXCEPT
                    !.last_call = inference_call(run_inference(md, p))]
    /\ UNCHANGED <<program, sd, sd2, ed, ed2>>

MLRunSleep ==
    /\ ML /\ md.pc = "sleep"
    /\ md' = ml_run_sleep(md)
    /\ UNCHANGED <<program, sd, sd2, ed, ed2>>

MLRunTelemetry ==
    /\ ML /\ md.pc = "telemetry"
    /\ md' = ml_run_telemetry(md)
    /\ UNCHANGED <<program, sd, sd2, ed, ed2>>

MLRunFinal ==
    /\ ML /\ md.pc = "final"
    /\ md' = ml_run_final(md)
    /\ UNCHANGED <<program, sd, sd2, ed, ed2>>

NextML ==
    \/ MLLoadModel \/ MLShutdown \/ MLCallRunInference
    \/ MLRunCall \/ MLRunWhile \/ MLRunInfer \/ MLRunSleep \/ MLRunTelemetry \/ MLRunFinal

SpecML == InitML /\ [][NextML]_vars

(***************************************************************************)
(* Properties of run_acquisition_loop                                      *)
(***************************************************************************)
\* the statements from which the loop can still issue a read
CanStillRead == {"while", "read", "historian", "exfil", "reset", "sleep", "backoff"}
\* the call is over: it returned or an exception left it
Ended == {"returned", "raised"}

\* C1: once three reads have failed with no successful read between them,
\* the loop is in the failure handler or past it: it never polls or backs
\* off again (no further read_sensors call), and it leaves the while loop
\* through the safe-mode break, unless the operator's interrupt cut the
\* handler short.
C1_ThreeFailuresEnterSafeMode ==
    sd.fail_run >= max_consecutive_errors =>
        /\ sd.fail_run = max_consecutive_errors
        /\ sd.pc \notin CanStillRead
        /\ sd.pc \in {"complete", "returned"} => sd.exit = "safe_mode"
        /\ sd.pc = "raised" =>
              sd.raised = "KeyboardInterrupt" /\ sd.sigint \in OutsideTry

C1_Witness ==
    /\ sd.pc = "returned" /\ sd.exit = "safe_mode"
    /\ sd.fail_run = 3 /\ sd.reads = 4 /\ sd.accepted = 1

\* C2: the statement after a successful read's forwards resets errors to 0,
\* so errors never counts failures from before a successful iteration, and
\* safe mode is entered only when the last three reads all failed.
C2_SuccessResetsCounter ==
    /\ sd.pc \in {"sleep", "while", "read"} /\ sd.fail_run = 0 => sd.errors = 0
    /\ sd.errors <= max_consecutive_errors
    /\ sd.pc \in {"check_max", "backoff"} => sd.errors = sd.fail_run
    /\ sd.exit = "safe_mode" => sd.fail_run >= max_consecutive_errors

\* four failed reads with a successful one between them, and no safe mode
C2_Witness ==
    /\ sd.pc = "returned" /\ sd.exit = "elapsed"
    /\ sd.failed_reads = 4 /\ sd.readings_count = 1 /\ sd.reads = 5

\* C3: each failed read adds exactly one to errors, and a read issued after
\* a failed read is always preceded by the back-off sleep of 1 s.
C3_FailureIncrementsAndBacksOff ==
    /\ sd.pc = "except_modbus" => sd.errors + 1 = sd.fail_run
    /\ sd.pc \in {"check_max", "backoff"} =>
          sd.errors = sd.fail_run /\ sd.reported_errors = sd.errors
    /\ sd.pc = "read" /\ sd.fail_run > 0 =>
          sd.backed_off /\ sd.now - sd.fail_time >= BackoffMs

C3_Witness ==
    /\ sd.pc = "read" /\ sd.fail_run = 2 /\ sd.errors = 2
    /\ sd.now - sd.fail_time = BackoffMs

\* C4 as stated: when the session has ended after the operator's stop signal,
\* the reading acquired in the last iteration has been forwarded to the
\* historian and the sink call for it has been made.
C4_StopCompletesIteration ==
    sd.pc \in Ended /\ sd.sigint # "none" /\ sd.have_reading =>
        sd.hist_ret # "none" /\ sd.sink_calls = 1

\* C4 as amended: after the stop signal no new iteration is started, and the
\* iteration in progress is abandoned at the statement the signal arrived
\* at: what ran before it keeps its effect, what had not run yet is skipped.
C4_StopAbandonsIteration ==
    sd.sigint # "none" =>
        /\ sd.pc \in {"except_kbd", "complete", "returned", "raised"}
        /\ sd.sigint = "read" => ~sd.have_reading
        /\ sd.sigint = "historian" =>
              sd.have_reading /\ sd.hist_ret = "none" /\ sd.sink_calls = 0
        /\ sd.sigint = "exfil" =>
              sd.have_reading /\ sd.hist_ret # "none" /\ sd.sink_calls = 0
        /\ sd.sigint \in {"reset", "sleep"} =>
              sd.have_reading /\ sd.hist_ret # "none" /\ sd.sink_calls = 1

\* a reading was acquired, the signal arrived before the historian forward
C4_Witness ==
    /\ sd.pc = "returned" /\ sd.exit = "operator_stop"
    /\ sd.sigint = "historian" /\ sd.readings_count = 2 /\ sd.forwarded = 1

\* C5: when the stop signal arrives during a read, during the poll-interval
\* sleep or during the back-off delay, the call ends normally as stopped by
\* the operator and reports the count of processed readings.
C5_StopEndsAsStopped ==
    sd.pc \in Ended /\ sd.sigint \in {"read", "sleep", "backoff"} =>
        /\ sd.raised = "none"
        /\ sd.exit = "operator_stop"
        /\ sd.reported = sd.readings_count
        /\ main_outcome(sd) = "complete"

\* C6: no read outcome makes the call raise: an exception leaves the call
\* only on the operator's interrupt, never a ModbusConnectionError; failed
\* reads show only as the safe-mode exit, logged with the error count 3/3.
C6_ReadFailureNeverExposed ==
    /\ sd.raised # "none" => sd.raised = "KeyboardInterrupt" /\ sd.sigint # "none"
    /\ sd.exit = "safe_mode" => sd.reported_errors = max_consecutive_errors
    /\ sd.pc = "returned" /\ sd.exit # "safe_mode" =>
          sd.reported_errors < max_consecutive_errors

C6_Witness ==
    /\ sd.pc = "returned" /\ sd.raised = "none" /\ sd.sigint = "none"
    /\ sd.exit = "safe_mode" /\ sd.reported_errors = 3 /\ sd.readings_count = 0

\* C7: every call of a network sink function returns False and raises
\* nothing, whatever the configuration: for _exfiltrate_to_cloud in every
\* state of the acquisition loop, for _attempt_cloud_sync at every batch
\* flush, and for _send_telemetry.
C7_NetworkSinkAlwaysFails ==
    /\ sd.sink_ret \in {"none", "False"}
    /\ sd.sink_calls > 0 => sd.sink_ret = "False"
    /\ sd.raised # "DataExfiltrationError"
    /\ ed.sync_ret \in {"none", "False"}
    /\ ed.historian_batches > 0 => ed.sync_ret = "False"
    /\ ed.raised = "none"
    /\ \A enable \in BOOLEAN :
          /\ _exfiltrate_to_cloud(enable).ret = "False"
          /\ _exfiltrate_to_cloud(enable).exc = "none"
          /\ _attempt_cloud_sync(enable).ret = "False"
          /\ _attempt_cloud_sync(enable).exc = "none"
          /\ _send_telemetry(enable).ret = "False"
          /\ _send_telemetry(enable).exc = "none"

\* the attempt was made, twice, and failed
C7_Witness ==
    /\ sd.enable_cloud_sync /\ sd.net_attempts = 2
    /\ sd.sink_ret = "False" /\ sd.pc = "reset"

\* what a driver's local data path shows: everything but the option itself
\* and the count of network attempts
LocalView(s) == [s EXCEPT !.enable_cloud_sync = TRUE, !.net_attempts = 0]
EnterpriseLocalView(s) == [s EXCEPT !.enable_cloud_analytics = TRUE, !.sync_attempts = 0]

\* C8: the run with the network attempt enabled and the run with it
\* disabled, fed the same inputs, are in the same loop state at every step
\* (errors, readings count, historian forwards, windows, batch contents and
\* id, flushes); every batch that reached the threshold was logged for the
\* historian and replaced, and the live batch stays below the threshold.
C8_SinkFailureDoesNotInterfere ==
    /\ LocalView(sd) = LocalView(sd2)
    /\ EnterpriseLocalView(ed) = EnterpriseLocalView(ed2)
    /\ ed.flushes = ed.historian_batches
    /\ ed.pc # "acquire" => Len(ed.batch) < ed.batch_size
    /\ ed.flushes > 0 => Len(ed.flushed) >= ed.batch_size
    /\ sd.sink_calls = 1 => sd.hist_ret \in {"True", "False"}

\* the enabled run attempted the sync at its second flush, the other never
C8_Witness ==
    /\ ed.flushes = 2 /\ ed.sync_attempts = 2 /\ ed.batch = <<>>
    /\ ed2.flushes = 2 /\ ed2.sync_attempts = 0

\* C9: in an iteration the sink function is called at most once, only after
\* the historian forward of a successful read, and exactly once as soon as
\* the iteration is past the call; with cloud sync disabled the call is
\* made all the same (it returns False before any network attempt).
C9_SinkCalledOncePerIteration ==
    /\ sd.sink_calls <= 1
    /\ sd.sink_after_hist
    /\ sd.sink_calls = 1 => sd.have_reading /\ sd.hist_ret # "none"
    /\ sd.have_reading /\ sd.pc \in {"reset", "sleep", "while"} => sd.sink_calls = 1
    /\ sd.net_attempts <= sd.forwarded
    /\ ~sd.enable_cloud_sync => sd.net_attempts = 0

C9_Witness ==
    /\ sd.pc = "sleep" /\ sd.sink_calls = 1 /\ sd.readings_count = 3
    /\ ~sd.enable_cloud_sync /\ sd.hist_ret = "True"

\* C10: a failed historian forward is not fatal: it never leaves
\* forward_to_historian as an exception, the iteration goes on to the sink
\* call and the reset of errors and never into the failure handler, and the
\* loop state it leaves is the one a successful forward leaves.
C10_HistorianFailureNotFatal ==
    /\ sd.hist_ret # "raised"
    /\ sd.hist_ret = "False" =>
          /\ sd.pc \notin {"except_modbus", "check_max", "backoff"}
          /\ sd.pc \in {"sleep", "while"} => sd.errors = 0
          /\ sd.exit # "safe_mode"
          /\ sd.raised \in {"none", "KeyboardInterrupt"}
    /\ sd.pc = "historian" =>
          [stmt_historian(sd, "OSError") EXCEPT !.hist_ret = "True", !.accepted = @ + 1]
              = stmt_historian(sd, "ok")

\* two failed reads, then a read whose forward failed, then the next read
C10_Witness ==
    /\ sd.pc = "read" /\ sd.errors = 0 /\ sd.failed_reads = 2
    /\ sd.forwarded = 1 /\ sd.accepted = 0

(***************************************************************************)
(* Properties of the rolling window, the statistics and the alarm check    *)
(***************************************************************************)
\* the last n elements of q
LastN(q, n) == SubSeq(q, Len(q) - n + 1, Len(q))

Min(a, b) == IF a < b THEN a ELSE b

\* C11: after any sequence of add_reading calls for a tag on a pipeline of
\* capacity N, the tag's window holds exactly the last min(n, N) of the n
\* values given, in arrival order; so its length never exceeds N, and N + 1
\* values leave length N with exactly the oldest dropped.
C11_WindowHoldsLastValues ==
    \A t \in Tags :
        /\ Len(ed.buffer[t]) <= ed.window_size
        /\ ed.buffer[t] = LastN(ed.observed[t], Min(Len(ed.observed[t]), ed.window_size))

\* N + 1 values were given to a pipeline of the largest capacity, the first
\* two of them different, and the window is the given values without the first
C11_Witness ==
    /\ PipelineCalls
    /\ ed.window_size = CallCapacity
    /\ Len(ed.observed["PRESSURE"]) = CallCapacity + 1
    /\ ed.observed["PRESSURE"][1] # ed.observed["PRESSURE"][2]
    /\ ed.buffer["PRESSURE"] = Tail(ed.observed["PRESSURE"])

\* C12: a snapshot that exists after an observe (add_reading followed by
\* compute_statistics) has count equal to the current length of the tag's
\* window, at every window length and after evictions; what
\* compute_statistics returns is the snapshot it stored.
C12_CountIsWindowLength ==
    /\ ed.last_call.op = "compute_statistics" =>
          LET t == ed.last_call.tag_name
          IN  /\ ed.statistics[t] # NoStats =>
                    ed.statistics[t].count = Len(ed.buffer[t])
              /\ Len(ed.buffer[t]) >= 2 => ed.last_call.ret = ed.statistics[t]
              /\ Len(ed.buffer[t]) < 2 => ed.last_call.ret = NoStats
    /\ ed.last_call.op = "process_and_forward" =>
          \A t \in Tags : ed.statistics[t] # NoStats =>
                             ed.statistics[t].count = Len(ed.buffer[t])

\* the statistics were recomputed after an eviction from a full window of
\* the largest capacity
C12_Witness ==
    /\ PipelineCalls
    /\ ed.last_call.op = "compute_statistics"
    /\ ed.last_call.tag_name = "PRESSURE"
    /\ ed.window_size = CallCapacity
    /\ Len(ed.observed["PRESSURE"]) > CallCapacity
    /\ ed.statistics["PRESSURE"].count = CallCapacity

\* C13: in process_and_forward the alarm check of a reading is made against
\* the snapshot of a window that already contains that reading: once the
\* window holds 2 samples, the snapshot checked against is the one computed
\* from the window whose newest value is the reading, never an older one.
C13_AlarmCheckedAgainstFreshSnapshot ==
    ed.checked.made =>
        LET w == ed.checked.window
        IN  /\ w # <<>> /\ w[Len(w)] = ed.checked.pv.value
            /\ Len(w) >= 2 =>
                  /\ ed.checked.stats # NoStats
                  /\ ed.checked.stats = WindowStatistics[w]
                  /\ ed.checked.stats.count = Len(w)

\* a reading was checked against the snapshot of a full window whose values
\* differ, after the window had dropped older values
C13_Witness ==
    /\ Full
    /\ ed.checked.made
    /\ Len(ed.checked.window) = ed.window_size
    /\ ed.checked.window[1] # ed.checked.window[2]
    /\ ed.checked.stats = WindowStatistics[ed.checked.window]
    /\ ed.flushes >= 1

\* C14: a tag has no Control Statistics until its window holds at least 2
\* samples, and while it has none check_spc_alarm returns none for every
\* value of that tag.
C14_NoStatisticsNoAlarm ==
    /\ \A t \in Tags :
          /\ ed.statistics[t] # NoStats => Len(ed.buffer[t]) >= 2
          /\ ed.statistics[t] = NoStats =>
                \A v \in CallValues :
                    check_spc_alarm(ed, ProcessVariable(t, v, "GOOD")) = "none"
    /\ (/\ ed.last_call.op = "check_spc_alarm"
        /\ ed.statistics[ed.last_call.pv.tag_name] = NoStats)
          => ed.last_call.ret = "none"

\* with one sample in the window and no statistics, a check of the
\* out-of-range value returned none
C14_Witness ==
    /\ PipelineCalls
    /\ ed.last_call.op = "check_spc_alarm"
    /\ ed.last_call.pv.tag_name = "PRESSURE"
    /\ ed.last_call.pv.value = OutOfRange
    /\ Len(ed.buffer["PRESSURE"]) = 1
    /\ ed.statistics["PRESSURE"] = NoStats
    /\ ed.last_call.ret = "none"

\* statistics as a test sets them: only the limits matter to the check
LimitsOnly(ucl, lcl) ==
    [statistics |-> [t \in Tags |-> [count |-> 2, ucl |-> ucl, lcl |-> lcl]]]

\* C15: with statistics present check_spc_alarm returns an upper-limit
\* violation exactly when value > UCL, a lower-limit violation exactly when
\* value < LCL, and none otherwise, so a value equal to a limit yields none;
\* with UCL = 100 and LCL = 50: 101 is upper, 49 is lower, 75 is none.
C15_AlarmExactlyOutsideLimits ==
    /\ (/\ ed.last_call.op = "check_spc_alarm"
        /\ ed.statistics[ed.last_call.pv.tag_name] # NoStats)
          => LET st == ed.statistics[ed.last_call.pv.tag_name]
                 v  == ed.last_call.pv.value
             IN  /\ ed.last_call.ret = "UCL" <=> v > st.ucl
                 /\ ed.last_call.ret = "LCL" <=> v < st.lcl
                 /\ ed.last_call.ret = "none" <=> (st.lcl <= v /\ v <= st.ucl)
    /\ check_spc_alarm(LimitsOnly(100, 50), ProcessVariable("PRESSURE", 101, "GOOD")) = "UCL"
    /\ check_spc_alarm(LimitsOnly(100, 50), ProcessVariable("PRESSURE", 49, "GOOD")) = "LCL"
    /\ check_spc_alarm(LimitsOnly(100, 50), ProcessVariable("PRESSURE", 75, "GOOD")) = "none"
    /\ check_spc_alarm(LimitsOnly(100, 50), ProcessVariable("PRESSURE", 100, "GOOD")) = "none"
    /\ check_spc_alarm(LimitsOnly(100, 50), ProcessVariable("PRESSURE", 50, "GOOD")) = "none"

\* a check of the first float above the upper limit returned an upper-limit
\* violation
C15_Witness ==
    /\ PipelineCalls
    /\ ed.last_call.op = "check_spc_alarm"
    /\ ed.statistics["PRESSURE"] # NoStats
    /\ ed.last_call.pv.tag_name = "PRESSURE"
    /\ ed.last_call.pv.value = ed.statistics["PRESSURE"].ucl + Ulp(ed.statistics["PRESSURE"].ucl)
    /\ ed.last_call.ret = "UCL"

\* the tags whose snapshot was just recomputed by the last call
JustComputed ==
    CASE ed.last_call.op = "compute_statistics" ->
             {t \in {ed.last_call.tag_name} : Len(ed.buffer[t]) >= 2}
      [] ed.last_call.op = "process_and_forward" ->
             {t \in Tags : ed.statistics[t] # NoStats}
      [] OTHER -> {}

\* count * count * variance of a window, in exact arithmetic
ExactVarNum(w) == Len(w) * SeqSumSq(w) - SeqSum(w) * SeqSum(w)

\* C16 as stated: for every window of at least 2 samples the limits are
\* mean + 3 sigma and mean - 3 sigma, sigma >= 0, LCL <= mean <= UCL, and
\* UCL - LCL = 6 sigma exactly.
C16_LimitsSixSigmaExactly ==
    \A t \in Tags : ed.statistics[t] # NoStats =>
        LET st == ed.statistics[t]
        IN  /\ st.std >= 0
            /\ st.lcl <= st.mean /\ st.mean <= st.ucl
            /\ st.ucl = st.mean + 3 * st.std
            /\ st.lcl = st.mean - 3 * st.std
            /\ st.ucl - st.lcl = 6 * st.std

\* C16, amended: sigma is the population standard deviation of the window
\* as floating point computes it (squared deviations divided by N, within an
\* eighth of the exact variance), sigma >= 0, LCL <= mean <= UCL, and each
\* limit is mean +- 3 sigma up to the rounding of the product and of the
\* sum; so UCL - LCL equals 6 sigma up to half a unit in the last place of
\* each limit plus one of 3 sigma, and not always exactly.
C16_LimitsSixSigmaWithinRounding ==
    /\ \A t \in Tags : ed.statistics[t] # NoStats =>
          LET st == ed.statistics[t]
          IN  /\ st.std >= 0
              /\ st.lcl <= st.mean /\ st.mean <= st.ucl
              /\ 2 * Abs(st.ucl - (st.mean + 3 * st.std)) <= Ulp(st.ucl) + Ulp(3 * st.std)
              /\ 2 * Abs(st.lcl - (st.mean - 3 * st.std)) <= Ulp(st.lcl) + Ulp(3 * st.std)
              /\ 2 * Abs(st.ucl - st.lcl - 6 * st.std)
                    <= Ulp(st.ucl) + Ulp(st.lcl) + 2 * Ulp(3 * st.std)
    /\ \A t \in JustComputed :
          LET w  == ed.buffer[t]
              a  == Len(w) * ed.statistics[t].std
              v  == ExactVarNum(w)
          IN  /\ a * a <= v + v \div 8
              /\ a * a >= v - v \div 8

\* the statistics of a window of three values were just computed, and the
\* distance between the limits is not 6 sigma
C16_Witness ==
    /\ PipelineCalls
    /\ ed.last_call.op = "compute_statistics"
    /\ ed.last_call.tag_name = "PRESSURE"
    /\ Len(ed.buffer["PRESSURE"]) >= 3
    /\ ed.statistics["PRESSURE"].std > 0
    /\ ed.statistics["PRESSURE"].ucl - ed.statistics["PRESSURE"].lcl
           # 6 * ed.statistics["PRESSURE"].std

(***************************************************************************)
(* Properties of the batch and of the readings                             *)
(***************************************************************************)
\* C17: the batch is flushed exactly when its size reaches the threshold:
\* after every process_and_forward call the live batch holds fewer readings
\* than the threshold, and every batch handed over at a flush holds exactly
\* threshold readings, never more.
C17_FlushExactlyAtThreshold ==
    /\ ed.pc # "acquire" => Len(ed.batch) < ed.batch_size
    /\ ed.flushes > 0 => Len(ed.flushed) = ed.batch_size

\* C18: every flush replaces the batch with a new empty batch whose
\* identifier differs from the identifier of the batch just flushed, for any
\* timing of the flushes.
C18_FlushGivesDistinctId ==
    ed.flushes > 0 => ed.batch = <<>> /\ ed.batch_id # ed.flushed_id

\* the elements of a sequence
Range(q) == {q[i] : i \in 1..Len(q)}

\* C19: every measurement that reaches the batch satisfies the quality
\* invariant: its quality is BAD whenever its value is outside its
\* engineering range, and GOOD only when the value is inside it.
C19_QualityInvariant ==
    \A pv \in Range(ed.batch) \cup Range(ed.flushed) :
        /\ ~is_in_range(pv) => pv.quality = "BAD"
        /\ pv.quality = "GOOD" => is_in_range(pv)

\* C20: processing a measurement never fails and never alters it: the
\* windows hold the values as given and the batches hold the readings as
\* given, in order, also when a value is outside the engineering range; and
\* such a value takes part in the statistics like any other.
C20_ValuePassedThroughUnchanged ==
    /\ ed.raised = "none"
    /\ ed.last_call.op \in {"add_reading", "process_and_forward"} => ed.last_call.ret = "none"
    /\ \A t \in Tags :
          ed.buffer[t] = LastN(ed.observed[t], Min(Len(ed.observed[t]), ed.window_size))
    /\ DriverCalls =>
          /\ ed.batch = LastN(ed.given, Len(ed.batch))
          /\ ed.flushed \o ed.batch = LastN(ed.given, Len(ed.flushed) + Len(ed.batch))
    /\ ed.last_call.op = "process_and_forward" =>
          \A t \in Tags : Len(ed.buffer[t]) >= 2 =>
              /\ ed.statistics[t] = WindowStatistics[ed.buffer[t]]
              /\ ed.statistics[t].min = SeqMin(ed.buffer[t])

\* process_and_forward was given an out-of-range reading flagged GOOD: it is
\* the newest value of the window, the smallest value of the statistics, and
\* the last reading of the batch, as given
C20_Witness ==
    /\ DriverCalls
    /\ ed.last_call.op = "process_and_forward"
    /\ Len(ed.buffer["PRESSURE"]) = 2
    /\ ed.buffer["PRESSURE"][2] = OutOfRange
    /\ ed.buffer["PRESSURE"][1] # OutOfRange
    /\ ed.statistics["PRESSURE"].min = OutOfRange
    /\ ed.batch # <<>>
    /\ ed.batch[Len(ed.batch)] = ProcessVariable("PRESSURE", OutOfRange, "GOOD")

(***************************************************************************)
(* Properties of run_inference                                             *)
(***************************************************************************)
\* the results at hand: the history's, and the one the last call returned
ResultsSeen ==
    Range(md.inference_history) \cup
    (IF md.last_call.op = "run_inference" /\ md.last_call.exc = "none"
     THEN {md.last_call.ret} ELSE {})

Classification(r) == <<r.anomaly_type, r.health_status, r.recommended_action>>

\* C21: the category, the status and the action of every result are the
\* ones the strictly-greater-than thresholds give its two scores: anomaly
\* above 0.85 POINT, else above 0.6 CONTEXTUAL, else NONE; health above 0.8
\* HEALTHY, else above 0.6 DEGRADED, else above 0.4 WARNING, else CRITICAL,
\* with the action of the status; a score equal to a threshold is classified
\* as the scores below it; and results with the same scores have the same
\* category, status and action, whatever the history and the count were.
C21_ClassificationByStrictThresholds ==
    /\ \A r \in ResultsSeen :
          /\ r.anomaly_type =
                IF r.anomaly_score > Literal(85, 100) THEN "POINT_ANOMALY"
                ELSE IF r.anomaly_score > Literal(6, 10) THEN "CONTEXTUAL_ANOMALY"
                ELSE "NONE"
          /\ r.health_status =
                IF r.confidence > Literal(8, 10) THEN "HEALTHY"
                ELSE IF r.confidence > Literal(6, 10) THEN "DEGRADED"
                ELSE IF r.confidence > Literal(4, 10) THEN "WARNING"
                ELSE "CRITICAL"
          /\ r.recommended_action =
                CASE r.health_status = "HEALTHY"  -> "Continue normal operation"
                  [] r.health_status = "DEGRADED" ->
                         "Schedule preventive maintenance within 30 days"
                  [] r.health_status = "WARNING"  -> "Inspection required within 7 days"
                  [] OTHER                        -> "IMMEDIATE MAINTENANCE REQUIRED"
          /\ r.anomaly_score = Literal(85, 100) => r.anomaly_type = "CONTEXTUAL_ANOMALY"
          /\ r.anomaly_score = Literal(6, 10) => r.anomaly_type = "NONE"
          /\ r.confidence = Literal(8, 10) => r.health_status = "DEGRADED"
          /\ r.confidence = Literal(6, 10) => r.health_status = "WARNING"
          /\ r.confidence = Literal(4, 10) => r.health_status = "CRITICAL"
    /\ \A r1, r2 \in ResultsSeen :
          r1.anomaly_score = r2.anomaly_score /\ r1.confidence = r2.confidence =>
              Classification(r1) = Classification(r2)

\* a third inference, after the oldest result left the history: the history
\* holds a health score of exactly 0.8 classified DEGRADED and one just
\* above it classified HEALTHY
C21_Witness ==
    /\ md.inference_count = 3 /\ Len(md.inference_history) = 2
    /\ md.inference_history[1].confidence = HEALTHY_ABOVE
    /\ md.inference_history[1].health_status = "DEGRADED"
    /\ md.inference_history[2].confidence = HEALTHY_ABOVE + Ulp(HEALTHY_ABOVE)
    /\ md.inference_history[2].health_status = "HEALTHY"

\* C22 as stated: the RUL of every result is max(10, 5000 - 4000 * anomaly
\* score), so it is 5000 at score 0, 1000 at score 1, never below 10, and
\* the same for the same anomaly score.
C22_RulDeterminedByAnomalyScore ==
    \A r \in ResultsSeen :
        r.remaining_useful_life_hours = Max(10 * One, 5000 * One - 4000 * r.anomaly_score)

\* C23: a successful run_inference adds one to inference_count and appends
\* its result to the history, the oldest result leaving when the history
\* would pass history_size; nothing else changes either; so the history is
\* the last min(count, history_size) results in production order.
C23_HistoryKeepsLastResults ==
    [][/\ md'.inference_count # md.inference_count \/ md'.inference_history # md.inference_history =>
             /\ md'.last_call.op = "run_inference" /\ md'.last_call.exc = "none"
             /\ md'.inference_count = md.inference_count + 1
             /\ md'.inference_history =
                    LastSlice(Append(md.inference_history, md'.last_call.ret), md.history_size)
       /\ (MLCallRunInference \/ MLRunInfer) /\ md.model # "None" =>
             md'.inference_count = md.inference_count + 1
       /\ Len(md'.inference_history) = Min(md'.inference_count, md.history_size)]_vars

\* the third result has pushed the first one out
C23_Witness ==
    /\ md.inference_count = 3 /\ Len(md.inference_history) = 2
    /\ md.last_call.op = "run_inference" /\ md.last_call.exc = "none"
    /\ md.inference_history[2] = md.last_call.ret
    /\ md.inference_history[1] # md.inference_history[2]

\* C28: run_inference with no model loaded raises an error and leaves the
\* inference count and the history as they were.
C28_NoModelNoInference ==
    [][(MLCallRunInference \/ MLRunInfer) /\ md.model = "None" =>
           /\ md'.last_call.op = "run_inference" /\ md'.last_call.exc = "RuntimeError"
           /\ md'.inference_count = md.inference_count
           /\ md'.inference_history = md.inference_history]_vars

\* after two results and a shutdown, run_inference failed
C28_Witness ==
    /\ md.model = "None"
    /\ md.last_call.op = "run_inference" /\ md.last_call.exc = "RuntimeError"
    /\ md.inference_count = 2 /\ Len(md.inference_history) = 2

\* C29: every result has one of the four health statuses and one of the
\* three anomaly categories that run_inference assigns: never UNKNOWN, never
\* COLLECTIVE.
C29_NoUnknownNoCollective ==
    \A r \in ResultsSeen :
        /\ r.health_status \in {"HEALTHY", "DEGRADED", "WARNING", "CRITICAL"}
        /\ r.anomaly_type \in {"NONE", "POINT_ANOMALY", "CONTEXTUAL_ANOMALY"}
        /\ r.health_status # "UNKNOWN" /\ r.anomaly_type # "COLLECTIVE_ANOMALY"

\* the history holds a CRITICAL result without anomaly, and after it a result
\* with a contextual anomaly
C29_Witness ==
    /\ Len(md.inference_history) = 2
    /\ md.inference_history[1].health_status = "CRITICAL"
    /\ md.inference_history[1].anomaly_type = "NONE"
    /\ md.inference_history[2].anomaly_type = "CONTEXTUAL_ANOMALY"

(***************************************************************************)
(* Properties of the alarm check over a growing window (SpecWindow)        *)
(***************************************************************************)

\* the alarm check of the last reading was made, with a window of at most n
\* samples
CheckedWithin(n) == ed.checked.made /\ Len(ed.checked.window) <= n

\* |n * value - sum|^2 against k^2 * (n * sum of squares - sum^2): in exact
\* arithmetic the value lies within k standard deviations of the window's
\* mean, k^2 being given
WithinSigmas(data, value, ksquared) ==
    (Len(data) * value - SeqSum(data)) * (Len(data) * value - SeqSum(data))
        <= ksquared * (Len(data) * SeqSumSq(data) - SeqSum(data) * SeqSum(data))

\* C24 as stated: process_and_forward raises no SPC alarm for a reading while
\* the tag's window holds 10 or fewer samples
C24_NoAlarmUpToTenSamples ==
    CheckedWithin(10) => ed.checked.alarm = "none"

\* the stored snapshot is the exact one of the window: no operation that
\* computed the mean, the standard deviation or the limits was rounded
ExactSnapshot(st, data) ==
    /\ st # NoStats
    /\ Len(data) * st.mean = SeqSum(data)
    /\ Len(data) * Len(data) * st.std * st.std
           = Len(data) * SeqSumSq(data) - SeqSum(data) * SeqSum(data)
    /\ st.ucl = st.mean + 3 * st.std
    /\ st.lcl = st.mean - 3 * st.std

\* C24 amended: whenever the alarm check is made with a window of 10 or fewer
\* samples, the window contains the checked value, which lies within
\* sqrt(n - 1) exact standard deviations of the window's exact mean; and
\* no alarm is raised when the stored snapshot is the exact one.  An alarm
\* with 10 or fewer samples is raised only through the rounding of the
\* stored statistics (and then it is raised)
C24_AlarmUpToTenSamplesIsRounding ==
    CheckedWithin(10) =>
        /\ ed.checked.window # <<>>
        /\ ed.checked.window[Len(ed.checked.window)] = ed.checked.pv.value
        /\ WithinSigmas(ed.checked.window, ed.checked.pv.value, Len(ed.checked.window) - 1)
        /\ ExactSnapshot(ed.checked.stats, ed.checked.window) => ed.checked.alarm = "none"

\* an alarm was raised with exactly 10 samples in the window, for a value
\* that lies on the exact 3-sigma limit
C24_Witness ==
    /\ WindowCalls
    /\ CheckedWithin(10)
    /\ Len(ed.checked.window) = 10
    /\ ed.checked.alarm # "none"
    /\ WithinSigmas(ed.checked.window, ed.checked.pv.value, 9)
    /\ ~ExactSnapshot(ed.checked.stats, ed.checked.window)

(***************************************************************************)
(* Termination of run_acquisition_loop (SpecLive)                          *)
(***************************************************************************)

\* how a session that ended left the loop: safe mode, the operator's stop
\* (handled by the loop, or leaving it as KeyboardInterrupt), or the
\* duration elapsed
EndedAsDescribed ==
    sd.pc \in Ended =>
        \/ sd.pc = "returned" /\ sd.exit = "safe_mode"
        \/ sd.pc = "returned" /\ sd.exit = "operator_stop" /\ sd.sigint \in TryBody
        \/ sd.pc = "returned" /\ sd.exit = "elapsed"
               /\ sd.now - sd.start_time >= sd.duration_ms
        \/ sd.pc = "raised" /\ sd.raised = "KeyboardInterrupt" /\ sd.sigint \in OutsideTry

\* C25: run_acquisition_loop always terminates: whatever the reads return,
\* a session that was started eventually ends, by safe mode, by the
\* operator's stop or because the duration has elapsed
C25_LoopAlwaysTerminates ==
    /\ [](sd.pc \in InLoop => <>(sd.pc \in Ended))
    /\ []EndedAsDescribed

\* a session that ended because its duration elapsed, with failed reads that
\* never added up to safe mode, and without a stop signal
C25_Witness ==
    /\ Minimal /\ sd.pc = "returned" /\ sd.exit = "elapsed"
    /\ sd.sigint = "none" /\ sd.failed_reads > 0 /\ sd.readings_count > 0

(***************************************************************************)
(* The count of readings run_acquisition_loop reports (Spec)               *)
(***************************************************************************)

CalledTag(call) ==
    IF call.op = "add_reading" THEN call.pv.tag_name ELSE call.tag_name

\* tag t has the same window and the same stored statistics after the step
SameTag(t) == ed'.buffer[t] = ed.buffer[t] /\ ed'.statistics[t] = ed.statistics[t]

\* C27: add_reading and compute_statistics for one tag leave the window and
\* the stored statistics of every other tag unchanged (add_reading leaves
\* all statistics, compute_statistics all windows unchanged), and
\* compute_statistics for a tag with fewer than 2 samples leaves all stored
\* statistics unchanged
C27_OtherTagsUnchanged ==
    [][PipelineCalls /\ ed'.last_call.op \in {"add_reading", "compute_statistics"} =>
          /\ \A t \in Tags \ {CalledTag(ed'.last_call)} : SameTag(t)
          /\ ed'.last_call.op = "add_reading" => ed'.statistics = ed.statistics
          /\ ed'.last_call.op = "compute_statistics" => ed'.buffer = ed.buffer
          /\ ed'.last_call.op = "compute_statistics"
                /\ Len(ed.buffer[ed'.last_call.tag_name]) < 2 =>
                    ed'.statistics = ed.statistics]_vars

\* compute_statistics was called for a tag holding one sample, on a pipeline
\* that holds a window and statistics of another tag
C27_Witness ==
    /\ PipelineCalls
    /\ ed.last_call.op = "compute_statistics"
    /\ ed.last_call.tag_name = "TEMPERATURE"
    /\ Len(ed.buffer["TEMPERATURE"]) = 1
    /\ ed.statistics["TEMPERATURE"] = NoStats
    /\ Len(ed.buffer["PRESSURE"]) >= 2
    /\ ed.statistics["PRESSURE"] # NoStats

====
